---- MODULE Spec2Model ----
(***************************************************************************)
(* PriceIndexCalculationEngine (src/city_price_processor.py): the chain    *)
(* construction, the damped correction sweep, the precise-matching pass,   *)
(* the chain-effect pass, the consistency verification and the final       *)
(* forced matching, as one state machine that follows one series through   *)
(* calculate_actual_values and calculate_corrected_values.                 *)
(*                                                                         *)
(* Arithmetic.  The code computes in binary floating point.  The model     *)
(* computes in decimal fixed point: an index level (actual_value) and a    *)
(* calculated percentage are integers counting 1/10000, a published        *)
(* percentage (month_on_month, year_on_year) is an integer counting 1/100  *)
(* (100.5 is 10050), and every product or quotient is rounded to the       *)
(* nearest unit where the code rounds to the nearest double.  Sequences    *)
(* are 1-based: the point the code calls result[i] is result[i + 1].       *)
(***************************************************************************)
EXTENDS Integers, Sequences, FiniteSets, TLC

VARIABLES
    price_data,          \* the observations handed to the engine
    base_value,          \* parameter base_value
    max_iterations,      \* parameter max_iterations
    basic_result,        \* what calculate_actual_values returned to the caller
    result,              \* the list calculate_corrected_values works on
    pc,                  \* where the call stands
    iteration,           \* loop variable of the sweep
    i,                   \* loop variable of the per-point loops
    max_adjustment,      \* largest |adjustment| seen in the current pass
    force_iter,          \* loop variable of the final stage
    all_mismatches,      \* list of the first phase of _force_final_matching
    remaining_mismatches,\* list of its second phase
    error,               \* the exception that ended the call, "" when none
    force_writes,        \* history: the values the current call of
                         \* _force_final_matching has changed so far
    round_start,         \* history: the actual values that call started from
    pass_start,          \* history: the actual values at the head of the
                         \* current pass of the sweep
    max_applied,         \* history: the largest amount a damped update of
                         \* the current pass has added to a point
    chain_start,         \* history: the actual values the current call of
                         \* _update_all_chain_effects started from
    sched,               \* the engine instance and the other calls made on it
    batch,               \* BatchProcessor.process_all: its loop variables
    fetch,               \* HousePriceDataCollector.fetch_page_content: its
                         \* loop variable, what it asked of the network and
                         \* how it ended
    web                  \* HousePriceHandler.handle_static_request: the
                         \* request and the response

vars == <<price_data, base_value, max_iterations, basic_result, result, pc,
          iteration, i, max_adjustment, force_iter, all_mismatches,
          remaining_mismatches, error, force_writes, round_start, pass_start,
          max_applied, chain_start, sched, batch, fetch, web>>

----------------------------------------------------------------------------
\* Units and program constants

Unit == 100 * 100                 \* one index point, one percent of a ratio
Pub == 10 * 10                    \* one percent of a published value
None == -1                        \* Python's None (an absent value)
LagEleven == 12 - 1               \* an off-by-one year
Lag == 12                         \* a year-on-year value looks 12 points back
PreciseAfter == 10                \* precise matching runs when iteration > 10
MaxForceIterations == 5           \* max_force_iterations
MismatchBound == 2                \* the stage stops at total_mismatches <= 2
DefaultMaxIterations == 200       \* default of max_iterations
DefaultBaseValue == 100 * Unit    \* default of base_value, 100.0
tolerance == Unit \div 1000       \* default of tolerance, 0.001

\* Bounds of the model
MaxLen == 17                      \* longest series of the small runs
MaxIter == 12                     \* largest max_iterations of the small runs
DefaultLen == 24                  \* length of the series run with the defaults

----------------------------------------------------------------------------
\* Arithmetic

Abs(x) == IF x < 0 THEN 0 - x ELSE x

Max(a, b) == IF a >= b THEN a ELSE b

\* a / c rounded to the nearest integer (c > 0)
RoundDiv(a, c) == (2 * a + c) \div (2 * c)

\* a * b / c rounded to the nearest integer, without forming a * b; a is
\* evaluated once, as the argument of a function
MulDiv(a, b, c) ==
    [x \in Int |-> (x \div c) * b + RoundDiv((x % c) * b, c)][a]

\* (a / c) * 100 as a calculated percentage, by long division (c > 0)
Ratio(a, c) ==
    LET q0 == a \div c
        r0 == a % c
        q1 == (r0 * 100) \div c
        r1 == (r0 * 100) % c
        q2 == (r1 * 100) \div c
        r2 == (r1 * 100) % c
    IN  q0 * 100 * Unit + q1 * Unit + q2 * 100 + RoundDiv(r2 * 100, c)

\* round(calculated, 1), as a published value
Round1(calculated) == RoundDiv(calculated, Unit \div 10) * (Pub \div 10)

\* prev * target / 100: the level a published percentage implies
Implied(prev, target) == MulDiv(prev, target, 100 * Pub)

\* abs(calculated - original)
ErrorOf(calculated, original) == Abs(calculated - original * (Unit \div Pub))

\* the test with a tolerance of 0.15
MatchTestLoose(calculated, original) ==
    Abs(Round1(calculated) - original) < 15

\* abs(round(calculated, 1) - original) < 0.05
MatchTest(calculated, original) ==
    Abs(Round1(calculated) - original) < 5

\* abs(round(calculated, 1) - target) >= 0.05
MismatchTest(calculated, target) ==
    Abs(Round1(calculated) - target) >= 5

----------------------------------------------------------------------------
\* Access by the code's index

N(res) == Len(res)

Val(res, k) == res[k + 1].actual_value

Mom(res, k) == res[k + 1].month_on_month

Yoy(res, k) == res[k + 1].year_on_year

\* a write of actual_value that also rederives growth_rate from the new level
SetValAndGrowth(res, k, v) ==
    [res EXCEPT ![k + 1].actual_value = v,
                ![k + 1].growth_rate =
                    IF k > 0 /\ Val(res, k - 1) > 0
                    THEN Ratio(v, Val(res, k - 1)) \div 100 - Unit
                    ELSE res[k + 1].growth_rate]

SetVal(res, k, v) == [res EXCEPT ![k + 1].actual_value = v]

\* the actual values of a series
Values(res) == [k \in 1..Len(res) |-> res[k].actual_value]

----------------------------------------------------------------------------
\* calculate_actual_values

\* (data['month_on_month'] - 100) / 100
GrowthRate(month_on_month) == month_on_month - 100 * Pub

\* the point appended for observation `data` (the keys of the verification
\* and 'corrected' are not there yet: verified and corrected are FALSE)
NewPoint(data, growth_rate, actual_value) ==
    [date |-> data.date,
     month_on_month |-> data.month_on_month,
     year_on_year |-> data.year_on_year,
     growth_rate |-> growth_rate,
     actual_value |-> actual_value,
     corrected |-> FALSE,
     verified |-> FALSE,
     calculated_mom |-> None,
     calculated_yoy |-> None,
     mom_error |-> None,
     yoy_error |-> None,
     mom_match |-> TRUE,
     yoy_match |-> TRUE]

\* current_value * growth_rate, the 1 + forgotten
ChainValueWithoutOne(current_value, growth_rate) ==
    MulDiv(current_value, growth_rate, Unit)

\* current_value * (1 + growth_rate)
ChainValue(current_value, growth_rate) ==
    MulDiv(current_value, Unit + growth_rate, Unit)

\* the for loop: actual[k] is `actual_value` of turn i = k - 1, and actual[k - 1]
\* is `current_value` at the head of that turn
CalculateActualValues(data, base) ==
    LET actual[k \in 1..Len(data)] ==
            IF k = 1
            THEN base
            ELSE ChainValue(actual[k - 1], GrowthRate(data[k].month_on_month))
    IN  [k \in 1..Len(data) |->
            NewPoint(data[k], GrowthRate(data[k].month_on_month), actual[k])]

\* data['month_on_month'] - 100 raises TypeError on None
ActualValuesRaises(data) ==
    \E k \in 1..Len(data) : data[k].month_on_month = None

----------------------------------------------------------------------------
\* _calculate_ideal_value

\* prev_year_value * target_yoy raises TypeError on None
IdealValueRaises(res, index) == index >= Lag /\ Yoy(res, index) = None

\* the same with the guards index > 0 and index >= 12 left out at index 0,
\* where result[index - 1] is Python's result[-1], the last point
IdealValueUnguarded(res, index) ==
    LET before == IF index = 0 THEN N(res) - 1 ELSE index - 1
        ideal_from_mom == Implied(Val(res, before), Mom(res, index))
        ideal_from_yoy == Implied(Val(res, index - Lag), Yoy(res, index))
    IN  IF index >= Lag
        THEN MulDiv(ideal_from_mom, 3, 10) + MulDiv(ideal_from_yoy, 7, 10)
        ELSE ideal_from_mom

\* the ideal value with the weights exchanged: 0.7 for the month-on-month
\* level and 0.3 for the year-on-year level
IdealValueSwappedWeights(res, index) ==
    LET ideal_from_mom == Implied(Val(res, index - 1), Mom(res, index))
        ideal_from_yoy == Implied(Val(res, index - Lag), Yoy(res, index))
    IN  IF index >= Lag
        THEN MulDiv(ideal_from_mom, 7, 10) + MulDiv(ideal_from_yoy, 3, 10)
        ELSE IF index > 0 THEN ideal_from_mom ELSE None

CalculateIdealValue(res, index) ==
    LET ideal_from_mom == Implied(Val(res, index - 1), Mom(res, index))
        ideal_from_yoy == Implied(Val(res, index - Lag), Yoy(res, index))
    IN  IF index >= Lag
        THEN IF index > 0
             THEN MulDiv(ideal_from_mom, 3, 10) + MulDiv(ideal_from_yoy, 7, 10)
             ELSE ideal_from_yoy
        ELSE IF index > 0 THEN ideal_from_mom ELSE None

\* 0.8 * (1 - iteration / max_iterations), with no lower limit
DampingFactorUnfloored(iter, max_iter) ==
    RoundDiv(8 * (Unit \div 10) * (max_iter - iter), max_iter)

\* max(0.1, 0.8 * (1 - iteration / max_iterations))
DampingFactor(iter, max_iter) ==
    Max(Unit \div 10, RoundDiv(8 * (Unit \div 10) * (max_iter - iter), max_iter))

\* original_value + adjustment * damping_factor
DampedValue(original_value, ideal_value, damping_factor) ==
    original_value + MulDiv(ideal_value - original_value, damping_factor, Unit)

----------------------------------------------------------------------------
\* _precise_matching_adjustment, one turn of its loop

\* actual_value / prev_value raises ZeroDivisionError
PreciseRaises(res, k) ==
    \/ k > 0 /\ Val(res, k - 1) = 0
    \/ k >= Lag /\ Val(res, k - Lag) = 0

\* the value of point k after the month-on-month nudge
PreciseAfterMom(res, k) ==
    LET actual_value == Val(res, k)
        prev_value == Val(res, k - 1)
    IN  IF k > 0 /\ MismatchTest(Ratio(actual_value, prev_value), Mom(res, k))
        THEN actual_value
             + MulDiv(Implied(prev_value, Mom(res, k)) - actual_value, 3, 10)
        ELSE actual_value

\* the value of point k after both nudges; the year-on-year test and gap use
\* actual_value as read at the top of the turn
PrecisePointValue(res, k) ==
    LET actual_value == Val(res, k)
        prev_year_value == Val(res, k - Lag)
    IN  IF k >= Lag
           /\ MismatchTest(Ratio(actual_value, prev_year_value), Yoy(res, k))
        THEN PreciseAfterMom(res, k)
             + MulDiv(Implied(prev_year_value, Yoy(res, k)) - actual_value, 5, 10)
        ELSE PreciseAfterMom(res, k)

----------------------------------------------------------------------------
\* _update_all_chain_effects, one turn of its loop

\* a blend made whatever the distance to the implied value
ChainPointValueAlways(res, k) ==
    LET current_value == Val(res, k)
        ideal_from_mom == Implied(Val(res, k - 1), Mom(res, k))
    IN  MulDiv(current_value, 7, 10) + MulDiv(ideal_from_mom, 3, 10)

ChainPointValue(res, k) ==
    LET current_value == Val(res, k)
        ideal_from_mom == Implied(Val(res, k - 1), Mom(res, k))
    IN  IF Abs(current_value - ideal_from_mom) > Unit \div 10
        THEN MulDiv(current_value, 7, 10) + MulDiv(ideal_from_mom, 3, 10)
        ELSE current_value

----------------------------------------------------------------------------
\* _verify_data_consistency

\* actual_value / prev_value raises ZeroDivisionError
VerifyDivides(res, index) ==
    \/ index > 0 /\ Val(res, index - 1) = 0
    \/ index >= Lag /\ Val(res, index - Lag) = 0

\* abs(calculated_yoy - original_yoy) raises TypeError on None
VerifyTypeError(res, index) == index >= Lag /\ Yoy(res, index) = None

\* the flags initialised to False
DefaultMatchFalse == FALSE

\* 'mom_match': True, 'yoy_match': True in the initial `verification`
DefaultMatch == TRUE

\* the dictionary `verification` of point index
VerifyDataConsistency(res, index) ==
    LET actual_value == Val(res, index)
        calculated_mom == Ratio(actual_value, Val(res, index - 1))
        calculated_yoy == Ratio(actual_value, Val(res, index - Lag))
    IN  [calculated_mom |-> IF index > 0 THEN calculated_mom ELSE None,
         calculated_yoy |-> IF index >= Lag THEN calculated_yoy ELSE None,
         mom_error |-> IF index > 0
                       THEN ErrorOf(calculated_mom, Mom(res, index))
                       ELSE None,
         yoy_error |-> IF index >= Lag
                       THEN ErrorOf(calculated_yoy, Yoy(res, index))
                       ELSE None,
         mom_match |-> IF index > 0
                       THEN MatchTest(calculated_mom, Mom(res, index))
                       ELSE DefaultMatch,
         yoy_match |-> IF index >= Lag
                       THEN MatchTest(calculated_yoy, Yoy(res, index))
                       ELSE DefaultMatch]

\* data.update(verification) that adds the new errors to the stored ones
UpdatePointAccumulating(data, verification) ==
    [data EXCEPT !.verified = TRUE,
                 !.calculated_mom = verification.calculated_mom,
                 !.calculated_yoy = verification.calculated_yoy,
                 !.mom_error = IF data.mom_error # None /\ verification.mom_error # None
                               THEN data.mom_error + verification.mom_error
                               ELSE verification.mom_error,
                 !.yoy_error = IF data.yoy_error # None /\ verification.yoy_error # None
                               THEN data.yoy_error + verification.yoy_error
                               ELSE verification.yoy_error,
                 !.mom_match = verification.mom_match,
                 !.yoy_match = verification.yoy_match]

\* data.update(verification)
UpdatePoint(data, verification) ==
    [data EXCEPT !.verified = TRUE,
                 !.calculated_mom = verification.calculated_mom,
                 !.calculated_yoy = verification.calculated_yoy,
                 !.mom_error = verification.mom_error,
                 !.yoy_error = verification.yoy_error,
                 !.mom_match = verification.mom_match,
                 !.yoy_match = verification.yoy_match]

\* for i, data in enumerate(result): data.update(verification); no turn
\* writes an actual_value, so every turn reads the values of `res`
VerifyAll(res) ==
    [k \in 1..Len(res) |-> UpdatePoint(res[k], VerifyDataConsistency(res, k - 1))]

\* the exception the loop ends with, "" when it runs through
VerifyRaises(res) ==
    IF \E k \in 0..(Len(res) - 1) : VerifyDivides(res, k) \/ VerifyTypeError(res, k)
    THEN LET first == CHOOSE k \in 0..(Len(res) - 1) :
                        /\ VerifyDivides(res, k) \/ VerifyTypeError(res, k)
                        /\ \A j \in 0..(k - 1) :
                             ~(VerifyDivides(res, j) \/ VerifyTypeError(res, j))
         IN  IF VerifyDivides(res, first) THEN "ZeroDivisionError" ELSE "TypeError"
    ELSE ""

\* sum(1 for d in result if not d.get('mom_match', True))
MomMismatches(res) == Cardinality({k \in 1..Len(res) : ~res[k].mom_match})

\* sum(1 for d in result if not d.get('yoy_match', True))
YoyMismatches(res) == Cardinality({k \in 1..Len(res) : ~res[k].yoy_match})

TotalMismatches(res) == MomMismatches(res) + YoyMismatches(res)

----------------------------------------------------------------------------
\* _force_final_matching

\* the test of the first scan: is 'mom' appended to the entry of point k
ScanMom(res, k) ==
    k > 0 /\ MismatchTest(Ratio(Val(res, k), Val(res, k - 1)), Mom(res, k))

\* is 'yoy' appended to the entry of point k
ScanYoy(res, k) ==
    k >= Lag /\ MismatchTest(Ratio(Val(res, k), Val(res, k - Lag)), Yoy(res, k))

\* mismatch_info of point k
MismatchInfo(res, k) ==
    [index |-> k,
     type |-> (IF ScanMom(res, k) THEN {"mom"} ELSE {})
              \cup (IF ScanYoy(res, k) THEN {"yoy"} ELSE {}),
     priority |-> (IF ScanMom(res, k) THEN 1 ELSE 0)
                  + (IF ScanYoy(res, k) THEN 2 ELSE 0)]

\* all_mismatches as appended, in index order
ScanAll(res) ==
    SelectSeq([k \in 1..Len(res) |-> MismatchInfo(res, k - 1)],
              LAMBDA m : m.type # {})

\* all_mismatches.sort(key=priority) without reverse=True
SortByPriorityAscending(list) ==
    SelectSeq(list, LAMBDA m : m.priority = 1)
    \o SelectSeq(list, LAMBDA m : m.priority = 2)
    \o SelectSeq(list, LAMBDA m : m.priority = 3)

\* all_mismatches.sort(key=priority, reverse=True): a stable sort, and a
\* priority is 3, 2 or 1
SortByPriority(list) ==
    SelectSeq(list, LAMBDA m : m.priority = 3)
    \o SelectSeq(list, LAMBDA m : m.priority = 2)
    \o SelectSeq(list, LAMBDA m : m.priority = 1)

\* the body of the first while loop for the popped entry
FirstSnap(res, mismatch) ==
    LET k == mismatch.index
    IN  IF "yoy" \in mismatch.type /\ k >= Lag
        THEN SetVal(res, k, Implied(Val(res, k - Lag), Yoy(res, k)))
        ELSE IF "mom" \in mismatch.type /\ k > 0
             THEN SetVal(res, k, Implied(Val(res, k - 1), Mom(res, k)))
             ELSE res

\* has_mismatch of point k in the second scan
HasMismatch(res, k) ==
    \/ k > 0 /\ MismatchTest(Ratio(Val(res, k), Val(res, k - 1)), Mom(res, k))
    \/ k >= Lag /\ MismatchTest(Ratio(Val(res, k), Val(res, k - Lag)), Yoy(res, k))

\* remaining_mismatches as appended
ScanRemaining(res) ==
    SelectSeq([k \in 1..Len(res) |-> k - 1], LAMBDA k : HasMismatch(res, k))

\* the second while loop with the rule of the first: by the kind of mismatch
SecondSnapByType(res, k) ==
    IF ScanYoy(res, k)
    THEN SetVal(res, k, Implied(Val(res, k - Lag), Yoy(res, k)))
    ELSE IF k > 0
         THEN SetVal(res, k, Implied(Val(res, k - 1), Mom(res, k)))
         ELSE res

\* the body of the second while loop for the popped index
SecondSnap(res, k) ==
    IF k >= Lag
    THEN SetVal(res, k, Implied(Val(res, k - Lag), Yoy(res, k)))
    ELSE IF k > 0
         THEN SetVal(res, k, Implied(Val(res, k - 1), Mom(res, k)))
         ELSE res

----------------------------------------------------------------------------
\* The series the engine is run on

\* published values: 100.0, 100.5, 101.0, 99.7, 103.0, and 100.04, which is
\* not given to one decimal
P1000 == 100 * Pub
P1005 == 100 * Pub + 50
P1010 == 101 * Pub
P0997 == 100 * Pub - 30
P1030 == 103 * Pub
P10004 == 100 * Pub + 4
P1001 == 100 * Pub + 10

\* n observations, the even and the odd positions each with one pair of values
Series(n, mom_even, mom_odd, yoy_even, yoy_odd) ==
    [k \in 1..n |->
        [date |-> k,
         month_on_month |-> IF (k - 1) % 2 = 0 THEN mom_even ELSE mom_odd,
         year_on_year |-> IF (k - 1) % 2 = 0 THEN yoy_even ELSE yoy_odd]]

SmallLens == (0..2) \cup (12..MaxLen)

SmallSeries ==
    {Series(n, me, mo, ye, yo) :
        n \in SmallLens,
        me \in {P1000, P1005, None}, mo \in {P1000, P1010, P10004},
        ye \in {P1000, P1001, None}, yo \in {P1000, P1030}}

DefaultSeries ==
    {Series(DefaultLen, P1000, mo, P1000, yo) :
        mo \in {P1000, P0997}, yo \in {P1000, P1030}}

\* no batch run, no page request and no static request is under way
NothingElse ==
    /\ batch = <<>>
    /\ fetch = <<>>
    /\ web = <<>>

\* the state before the caller's first call
Entry(data, base, max_iter) ==
    /\ price_data = data
    /\ base_value = base
    /\ max_iterations = max_iter
    /\ basic_result = <<>>
    /\ result = <<>>
    /\ pc = "start"
    /\ iteration = 0
    /\ i = 0
    /\ max_adjustment = 0
    /\ force_iter = 0
    /\ all_mismatches = <<>>
    /\ remaining_mismatches = <<>>
    /\ error = ""
    /\ force_writes = 0
    /\ round_start = <<>>
    /\ pass_start = <<>>
    /\ max_applied = 0
    /\ chain_start = <<>>

\* the engine instance (__init__ sets no attribute) with no other call on it
OneCall ==
    [phase |-> "single", self |-> 0, saved |-> <<>>, solo |-> <<>>,
     mixed |-> FALSE]

Init ==
    /\ \E data \in SmallSeries, base \in {0, DefaultBaseValue},
          max_iter \in {0, 1, MaxIter} :
           Entry(data, base, max_iter)
    /\ sched = OneCall
    /\ NothingElse

InitDefault ==
    /\ \E data \in DefaultSeries :
           Entry(data, DefaultBaseValue, DefaultMaxIterations)
    /\ sched = OneCall
    /\ NothingElse

----------------------------------------------------------------------------
\* The steps of a call

Raise(kind) ==
    /\ pc' = "error"
    /\ error' = kind

\* the caller's calculate_actual_values(city_data)
CallActualValues ==
    /\ pc = "start"
    /\ UNCHANGED <<sched, batch, fetch, web, pass_start, max_applied, chain_start>>
    /\ UNCHANGED <<force_writes, round_start>>
    /\ IF price_data # <<>> /\ ActualValuesRaises(price_data)
       THEN /\ Raise("TypeError")
            /\ UNCHANGED basic_result
       ELSE /\ basic_result' = CalculateActualValues(price_data, base_value)
            /\ pc' = "call_corrected"
            /\ UNCHANGED error
    /\ UNCHANGED <<price_data, base_value, max_iterations, result, iteration, i,
                   max_adjustment, force_iter, all_mismatches,
                   remaining_mismatches>>

\* calculate_corrected_values up to the head of the sweep
CorrectedStart ==
    /\ pc = "call_corrected"
    /\ UNCHANGED <<sched, batch, fetch, web, chain_start>>
    /\ UNCHANGED <<force_writes, round_start>>
    /\ IF price_data = <<>>
       THEN /\ result' = <<>>
            /\ pc' = "done"
       ELSE /\ result' = CalculateActualValues(price_data, base_value)
            /\ pc' = IF max_iterations > 0 THEN "sweep" ELSE "verify"
    /\ pass_start' = Values(result')
    /\ max_applied' = 0
    /\ iteration' = 0
    /\ i' = 0
    /\ max_adjustment' = 0
    /\ UNCHANGED <<price_data, base_value, max_iterations, basic_result,
                   force_iter, all_mismatches, remaining_mismatches, error>>

\* the series with its actual values replaced by `values`
WithValues(res, values) ==
    [k \in 1..Len(res) |-> [res[k] EXCEPT !.actual_value = values[k]]]

\* one turn of a sweep that reads the neighbours of a point from the values
\* at the head of the pass, and not from the list it writes
SweepPointFromPassStart ==
    /\ pc = "sweep"
    /\ UNCHANGED <<sched, batch, fetch, web, pass_start>>
    /\ UNCHANGED <<force_writes, round_start>>
    /\ i < N(result)
    /\ LET original_value == Val(result, i)
           ideal_value == CalculateIdealValue(WithValues(result, pass_start), i)
           new_value == DampedValue(original_value, ideal_value,
                                    DampingFactor(iteration, max_iterations))
       IN  /\ IF ideal_value # None
              THEN /\ result' = [result EXCEPT
                                   ![i + 1].actual_value = new_value,
                                   ![i + 1].corrected = TRUE]
                   /\ max_adjustment' =
                        Max(max_adjustment, Abs(ideal_value - original_value))
                   /\ max_applied' =
                        Max(max_applied, Abs(new_value - original_value))
              ELSE UNCHANGED <<result, max_adjustment, max_applied>>
           /\ IF i + 1 < N(result)
              THEN /\ i' = i + 1
                   /\ UNCHANGED pc
              ELSE IF iteration > PreciseAfter
                   THEN /\ i' = 0
                        /\ pc' = "precise"
                   ELSE /\ i' = 1
                        /\ pc' = "chain"
           /\ UNCHANGED error
    /\ UNCHANGED <<price_data, base_value, max_iterations, basic_result,
                   iteration, force_iter, all_mismatches, remaining_mismatches>>
    /\ chain_start' = IF pc' = "chain" THEN Values(result') ELSE chain_start

\* one turn of a sweep whose precise-matching pass runs in one pass only, the
\* first one after the threshold
SweepPointPreciseOnce ==
    /\ pc = "sweep"
    /\ UNCHANGED <<sched, batch, fetch, web, pass_start>>
    /\ UNCHANGED <<force_writes, round_start>>
    /\ i < N(result)
    /\ IF IdealValueRaises(result, i)
       THEN /\ Raise("TypeError")
            /\ UNCHANGED <<result, i, max_adjustment, max_applied>>
       ELSE LET original_value == Val(result, i)
                ideal_value == CalculateIdealValue(result, i)
                new_value == DampedValue(original_value, ideal_value,
                                         DampingFactor(iteration, max_iterations))
            IN  /\ IF ideal_value # None
                   THEN /\ result' = [result EXCEPT
                                        ![i + 1].actual_value = new_value,
                                        ![i + 1].corrected = TRUE]
                        /\ max_adjustment' =
                             Max(max_adjustment, Abs(ideal_value - original_value))
                        /\ max_applied' =
                             Max(max_applied, Abs(new_value - original_value))
                   ELSE UNCHANGED <<result, max_adjustment, max_applied>>
                /\ IF i + 1 < N(result)
                   THEN /\ i' = i + 1
                        /\ UNCHANGED pc
                   ELSE IF iteration = PreciseAfter + 1
                        THEN /\ i' = 0
                             /\ pc' = "precise"
                        ELSE /\ i' = 1
                             /\ pc' = "chain"
                /\ UNCHANGED error
    /\ UNCHANGED <<price_data, base_value, max_iterations, basic_result,
                   iteration, force_iter, all_mismatches, remaining_mismatches>>
    /\ chain_start' = IF pc' = "chain" THEN Values(result') ELSE chain_start

\* one turn of the loop over the points in the damped sweep
SweepPoint ==
    /\ pc = "sweep"
    /\ UNCHANGED <<sched, batch, fetch, web, pass_start>>
    /\ UNCHANGED <<force_writes, round_start>>
    /\ i < N(result)
    /\ IF IdealValueRaises(result, i)
       THEN /\ Raise("TypeError")
            /\ UNCHANGED <<result, i, max_adjustment, max_applied>>
       ELSE LET original_value == Val(result, i)
                ideal_value == CalculateIdealValue(result, i)
                new_value == DampedValue(original_value, ideal_value,
                                         DampingFactor(iteration, max_iterations))
            IN  /\ IF ideal_value # None
                   THEN /\ result' = [result EXCEPT
                                        ![i + 1].actual_value = new_value,
                                        ![i + 1].corrected = TRUE]
                        /\ max_adjustment' =
                             Max(max_adjustment, Abs(ideal_value - original_value))
                        /\ max_applied' =
                             Max(max_applied, Abs(new_value - original_value))
                   ELSE UNCHANGED <<result, max_adjustment, max_applied>>
                /\ IF i + 1 < N(result)
                   THEN /\ i' = i + 1
                        /\ UNCHANGED pc
                   ELSE IF iteration > PreciseAfter
                        THEN /\ i' = 0
                             /\ pc' = "precise"
                        ELSE /\ i' = 1
                             /\ pc' = "chain"
                /\ UNCHANGED error
    /\ UNCHANGED <<price_data, base_value, max_iterations, basic_result,
                   iteration, force_iter, all_mismatches, remaining_mismatches>>
    /\ chain_start' = IF pc' = "chain" THEN Values(result') ELSE chain_start

\* one turn of the loop of _precise_matching_adjustment
PrecisePoint ==
    /\ pc = "precise"
    /\ UNCHANGED <<sched, batch, fetch, web, pass_start, max_applied>>
    /\ UNCHANGED <<force_writes, round_start>>
    /\ i < N(result)
    /\ IF PreciseRaises(result, i)
       THEN /\ Raise("ZeroDivisionError")
            /\ UNCHANGED <<result, i>>
       ELSE /\ result' = SetVal(result, i, PrecisePointValue(result, i))
            /\ IF i + 1 < N(result)
               THEN /\ i' = i + 1
                    /\ UNCHANGED pc
               ELSE /\ i' = 1
                    /\ pc' = "chain"
            /\ UNCHANGED error
    /\ UNCHANGED <<price_data, base_value, max_iterations, basic_result,
                   iteration, max_adjustment, force_iter, all_mismatches,
                   remaining_mismatches>>
    /\ chain_start' = IF pc' = "chain" THEN Values(result') ELSE chain_start

\* one turn of the loop of _update_all_chain_effects
ChainPoint ==
    /\ pc = "chain"
    /\ UNCHANGED <<sched, batch, fetch, web, pass_start, max_applied, chain_start>>
    /\ UNCHANGED <<force_writes, round_start>>
    /\ i < N(result)
    /\ result' = SetVal(result, i, ChainPointValue(result, i))
    /\ i' = i + 1
    /\ UNCHANGED <<price_data, base_value, max_iterations, basic_result, pc,
                   iteration, max_adjustment, force_iter, all_mismatches,
                   remaining_mismatches, error>>

\* the convergence test made on the amounts the damped updates added
ConvergenceCheckOnApplied ==
    /\ pc = "chain"
    /\ UNCHANGED <<sched, batch, fetch, web, chain_start>>
    /\ UNCHANGED <<force_writes, round_start>>
    /\ i >= N(result)
    /\ IF max_applied < tolerance \/ iteration + 1 >= max_iterations
       THEN /\ pc' = "verify"
            /\ UNCHANGED <<iteration, max_adjustment, pass_start, max_applied>>
       ELSE /\ pc' = "sweep"
            /\ iteration' = iteration + 1
            /\ max_adjustment' = 0
            /\ pass_start' = Values(result)
            /\ max_applied' = 0
    /\ i' = 0
    /\ UNCHANGED <<price_data, base_value, max_iterations, basic_result, result,
                   force_iter, all_mismatches, remaining_mismatches, error>>

\* the convergence test that ends a pass, and the head of the next pass
ConvergenceCheck ==
    /\ pc = "chain"
    /\ UNCHANGED <<sched, batch, fetch, web, chain_start>>
    /\ UNCHANGED <<force_writes, round_start>>
    /\ i >= N(result)
    /\ IF max_adjustment < tolerance \/ iteration + 1 >= max_iterations
       THEN /\ pc' = "verify"
            /\ UNCHANGED <<iteration, max_adjustment, pass_start, max_applied>>
       ELSE /\ pc' = "sweep"
            /\ iteration' = iteration + 1
            /\ max_adjustment' = 0
            /\ pass_start' = Values(result)
            /\ max_applied' = 0
    /\ i' = 0
    /\ UNCHANGED <<price_data, base_value, max_iterations, basic_result, result,
                   force_iter, all_mismatches, remaining_mismatches, error>>

\* the verification that follows the sweep
VerifyAfterSweep ==
    /\ pc = "verify"
    /\ UNCHANGED <<sched, batch, fetch, web, pass_start, max_applied, chain_start>>
    /\ UNCHANGED <<force_writes, round_start>>
    /\ IF VerifyRaises(result) # ""
       THEN /\ Raise(VerifyRaises(result))
            /\ UNCHANGED result
       ELSE /\ result' = VerifyAll(result)
            /\ pc' = "force_check"
            /\ UNCHANGED error
    /\ force_iter' = 0
    /\ UNCHANGED <<price_data, base_value, max_iterations, basic_result,
                   iteration, i, max_adjustment, all_mismatches,
                   remaining_mismatches>>

\* the head of a round that has no break
ForceCheckAlwaysForces ==
    /\ pc = "force_check"
    /\ UNCHANGED <<sched, batch, fetch, web, pass_start, max_applied, chain_start>>
    /\ UNCHANGED <<force_writes, round_start>>
    /\ IF VerifyRaises(result) # ""
       THEN /\ Raise(VerifyRaises(result))
            /\ UNCHANGED result
       ELSE /\ result' = VerifyAll(result)
            /\ pc' = "force_build"
            /\ UNCHANGED error
    /\ UNCHANGED <<price_data, base_value, max_iterations, basic_result,
                   iteration, i, max_adjustment, force_iter, all_mismatches,
                   remaining_mismatches>>

\* the head of a round of the final stage: verify, count, decide
ForceCheck ==
    /\ pc = "force_check"
    /\ UNCHANGED <<sched, batch, fetch, web, pass_start, max_applied, chain_start>>
    /\ UNCHANGED <<force_writes, round_start>>
    /\ IF VerifyRaises(result) # ""
       THEN /\ Raise(VerifyRaises(result))
            /\ UNCHANGED result
       ELSE /\ result' = VerifyAll(result)
            /\ pc' = IF TotalMismatches(VerifyAll(result)) <= MismatchBound
                     THEN "final_verify"
                     ELSE "force_build"
            /\ UNCHANGED error
    /\ UNCHANGED <<price_data, base_value, max_iterations, basic_result,
                   iteration, i, max_adjustment, force_iter, all_mismatches,
                   remaining_mismatches>>

\* _force_final_matching: the first scan and the sort
ForceBuild ==
    /\ pc = "force_build"
    /\ UNCHANGED <<sched, batch, fetch, web, pass_start, max_applied, chain_start>>
    /\ all_mismatches' = SortByPriority(ScanAll(result))
    /\ pc' = "force_pop"
    /\ force_writes' = 0
    /\ round_start' = [k \in 1..Len(result) |-> result[k].actual_value]
    /\ UNCHANGED <<price_data, base_value, max_iterations, basic_result, result,
                   iteration, i, max_adjustment, force_iter,
                   remaining_mismatches, error>>

\* a turn of the first while loop that snaps the first entry and leaves it in
\* the list
ForcePopKeepsEntry ==
    /\ pc = "force_pop"
    /\ UNCHANGED <<sched, batch, fetch, web, pass_start, max_applied, chain_start>>
    /\ Len(all_mismatches) > MismatchBound
    /\ result' = FirstSnap(result, Head(all_mismatches))
    /\ force_writes' = force_writes + (IF result' # result THEN 1 ELSE 0)
    /\ UNCHANGED <<price_data, base_value, max_iterations, basic_result, pc,
                   iteration, i, max_adjustment, force_iter, all_mismatches,
                   remaining_mismatches, error, round_start>>

\* one turn of the first while loop
ForcePop ==
    /\ pc = "force_pop"
    /\ UNCHANGED <<sched, batch, fetch, web, pass_start, max_applied, chain_start>>
    /\ Len(all_mismatches) > MismatchBound
    /\ result' = FirstSnap(result, Head(all_mismatches))
    /\ force_writes' = force_writes + (IF result' # result THEN 1 ELSE 0)
    /\ UNCHANGED round_start
    /\ all_mismatches' = Tail(all_mismatches)
    /\ UNCHANGED <<price_data, base_value, max_iterations, basic_result, pc,
                   iteration, i, max_adjustment, force_iter,
                   remaining_mismatches, error>>

\* the second scan, when the first while loop has ended
ForceRescan ==
    /\ pc = "force_pop"
    /\ UNCHANGED <<sched, batch, fetch, web, pass_start, max_applied, chain_start>>
    /\ UNCHANGED <<force_writes, round_start>>
    /\ Len(all_mismatches) <= MismatchBound
    /\ remaining_mismatches' = ScanRemaining(result)
    /\ pc' = "force_pop2"
    /\ UNCHANGED <<price_data, base_value, max_iterations, basic_result, result,
                   iteration, i, max_adjustment, force_iter, all_mismatches,
                   error>>

\* one turn of the second while loop
ForcePop2 ==
    /\ pc = "force_pop2"
    /\ UNCHANGED <<sched, batch, fetch, web, pass_start, max_applied, chain_start>>
    /\ Len(remaining_mismatches) > MismatchBound
    /\ result' = SecondSnap(result, Head(remaining_mismatches))
    /\ force_writes' = force_writes + (IF result' # result THEN 1 ELSE 0)
    /\ UNCHANGED round_start
    /\ remaining_mismatches' = Tail(remaining_mismatches)
    /\ UNCHANGED <<price_data, base_value, max_iterations, basic_result, pc,
                   iteration, i, max_adjustment, force_iter, all_mismatches,
                   error>>

\* _force_final_matching returns; the next round, or the end of the stage
ForceReturn ==
    /\ pc = "force_pop2"
    /\ UNCHANGED <<sched, batch, fetch, web, pass_start, max_applied, chain_start>>
    /\ UNCHANGED <<force_writes, round_start>>
    /\ Len(remaining_mismatches) <= MismatchBound
    /\ force_iter' = force_iter + 1
    /\ pc' = IF force_iter + 1 < MaxForceIterations
             THEN "force_check"
             ELSE "final_verify"
    /\ UNCHANGED <<price_data, base_value, max_iterations, basic_result, result,
                   iteration, i, max_adjustment, all_mismatches,
                   remaining_mismatches, error>>

\* the return without the last verification
FinalVerifySkipped ==
    /\ pc = "final_verify"
    /\ UNCHANGED <<sched, batch, fetch, web, pass_start, max_applied, chain_start>>
    /\ pc' = "done"
    /\ UNCHANGED <<price_data, base_value, max_iterations, basic_result, result,
                   iteration, i, max_adjustment, force_iter, all_mismatches,
                   remaining_mismatches, error, force_writes, round_start>>

\* the last verification and the return
FinalVerify ==
    /\ pc = "final_verify"
    /\ UNCHANGED <<sched, batch, fetch, web, pass_start, max_applied, chain_start>>
    /\ UNCHANGED <<force_writes, round_start>>
    /\ IF VerifyRaises(result) # ""
       THEN /\ Raise(VerifyRaises(result))
            /\ UNCHANGED result
       ELSE /\ result' = VerifyAll(result)
            /\ pc' = "done"
            /\ UNCHANGED error
    /\ UNCHANGED <<price_data, base_value, max_iterations, basic_result,
                   iteration, i, max_adjustment, force_iter, all_mismatches,
                   remaining_mismatches>>

Next ==
    \/ CallActualValues
    \/ CorrectedStart
    \/ SweepPoint
    \/ PrecisePoint
    \/ ChainPoint
    \/ ConvergenceCheck
    \/ VerifyAfterSweep
    \/ ForceCheck
    \/ ForceBuild
    \/ ForcePop
    \/ ForceRescan
    \/ ForcePop2
    \/ ForceReturn
    \/ FinalVerify

Spec == Init /\ [][Next]_vars

SpecDefault == InitDefault /\ [][Next]_vars

\* the call is one sequential computation: it takes its next step whenever
\* it has one
FairSpec == Spec /\ WF_vars(Next)

----------------------------------------------------------------------------
\* Several calls on one engine instance

\* the frame of the running call
Frame ==
    [price_data |-> price_data, base_value |-> base_value,
     max_iterations |-> max_iterations, basic_result |-> basic_result,
     result |-> result, pc |-> pc, iteration |-> iteration, i |-> i,
     max_adjustment |-> max_adjustment, force_iter |-> force_iter,
     all_mismatches |-> all_mismatches,
     remaining_mismatches |-> remaining_mismatches, error |-> error,
     force_writes |-> force_writes, round_start |-> round_start,
     pass_start |-> pass_start, max_applied |-> max_applied,
     chain_start |-> chain_start]

\* the frame of a call that has not started
EntryFrame(data, base, max_iter) ==
    [price_data |-> data, base_value |-> base, max_iterations |-> max_iter,
     basic_result |-> <<>>, result |-> <<>>, pc |-> "start", iteration |-> 0,
     i |-> 0, max_adjustment |-> 0, force_iter |-> 0, all_mismatches |-> <<>>,
     remaining_mismatches |-> <<>>, error |-> "", force_writes |-> 0,
     round_start |-> <<>>, pass_start |-> <<>>, max_applied |-> 0,
     chain_start |-> <<>>]

\* a call resumes with a frame in which max_adjustment is whatever the call
\* that ran last left: the variable kept on the engine instance
ResumeSharingAdjustment(frame) ==
    /\ price_data' = frame.price_data
    /\ base_value' = frame.base_value
    /\ max_iterations' = frame.max_iterations
    /\ basic_result' = frame.basic_result
    /\ result' = frame.result
    /\ pc' = frame.pc
    /\ iteration' = frame.iteration
    /\ i' = frame.i
    /\ max_adjustment' = max_adjustment
    /\ force_iter' = frame.force_iter
    /\ all_mismatches' = frame.all_mismatches
    /\ remaining_mismatches' = frame.remaining_mismatches
    /\ error' = frame.error
    /\ force_writes' = frame.force_writes
    /\ round_start' = frame.round_start
    /\ pass_start' = frame.pass_start
    /\ max_applied' = frame.max_applied
    /\ chain_start' = frame.chain_start

\* a call resumes with its own frame: every variable of the engine's methods
\* is an argument or a local
Resume(frame) ==
    /\ price_data' = frame.price_data
    /\ base_value' = frame.base_value
    /\ max_iterations' = frame.max_iterations
    /\ basic_result' = frame.basic_result
    /\ result' = frame.result
    /\ pc' = frame.pc
    /\ iteration' = frame.iteration
    /\ i' = frame.i
    /\ max_adjustment' = frame.max_adjustment
    /\ force_iter' = frame.force_iter
    /\ all_mismatches' = frame.all_mismatches
    /\ remaining_mismatches' = frame.remaining_mismatches
    /\ error' = frame.error
    /\ force_writes' = frame.force_writes
    /\ round_start' = frame.round_start
    /\ pass_start' = frame.pass_start
    /\ max_applied' = frame.max_applied
    /\ chain_start' = frame.chain_start

\* the series of the calls that share an engine: a long one that the sweep
\* does not settle, and short ones
PairIter == MaxIter
LongSeries == {Series(Lag + 5, P1005, P1000, P1000, P1030)}
ShortSeries == {Series(2, P1000, mo, P1000, P1000) : mo \in {P1000, P1010}}
PairSeries ==
    (LongSeries \X ShortSeries) \cup (ShortSeries \X LongSeries)
    \cup (ShortSeries \X ShortSeries)

\* a call that has begun its work and has not ended
Running(frame) == frame.pc \notin {"start", "call_corrected", "done", "error"}

\* call 0 runs alone on a fresh engine; the frame of call 2 waits
InitPair ==
    \E pair \in PairSeries :
        /\ Entry(pair[1], DefaultBaseValue, PairIter)
        /\ sched = [phase |-> "solo", self |-> 0,
                    saved |-> EntryFrame(pair[2], DefaultBaseValue, PairIter),
                    solo |-> <<>>, mixed |-> FALSE]
        /\ NothingElse

\* call 0 has returned: call 1 starts on the same engine with the same
\* arguments, next to call 2
StartPair ==
    /\ sched.phase = "solo"
    /\ pc = "done"
    /\ Resume(EntryFrame(price_data, base_value, max_iterations))
    /\ sched' = [sched EXCEPT !.phase = "pair", !.self = 1, !.solo = Frame]
    /\ UNCHANGED <<batch, fetch, web>>

\* the running call is suspended and the other call of the pair resumes
Switch ==
    /\ sched.phase = "pair"
    /\ sched.saved.pc \notin {"done", "error"}
    /\ Resume(sched.saved)
    /\ sched' = [sched EXCEPT
                    !.self = 3 - sched.self,
                    !.saved = Frame,
                    !.mixed = sched.mixed \/ (Running(Frame) /\ Running(sched.saved))]
    /\ UNCHANGED <<batch, fetch, web>>

NextPair ==
    \/ Next
    \/ StartPair
    \/ Switch

SpecPair == InitPair /\ [][NextPair]_vars

----------------------------------------------------------------------------
\* Properties

Returned == pc = "done"

Numeric(data) ==
    \A k \in 1..Len(data) :
        data[k].month_on_month # None /\ data[k].year_on_year # None

\* C1: after calculate_corrected_values has returned from a run with the
\* default parameters on a series of at least 24 points with one-decimal
\* values in 95..105, the points with mom_match false and the points with
\* yoy_match false are together at most 2.
C1_MismatchBound ==
    (/\ Returned
     /\ Len(price_data) >= 24
     /\ max_iterations = DefaultMaxIterations
     /\ base_value = DefaultBaseValue)
    => MomMismatches(result) + YoyMismatches(result) <= 2

\* C2: in the output of calculate_actual_values, in every state of the
\* correction and in its output, the first point's actual_value is the
\* base value.
C2_FirstPointIsBase ==
    /\ basic_result # <<>> => basic_result[1].actual_value = base_value
    /\ result # <<>> => result[1].actual_value = base_value

\* a corrected series has been returned after precise matching and the final
\* stage have both written values
C2_Witness ==
    /\ Returned
    /\ Len(result) > 12
    /\ iteration > 10
    /\ force_writes > 0
    /\ \E k \in 1..Len(result) : result[k].actual_value # basic_result[k].actual_value
    /\ result[1].actual_value = base_value

\* C3: in the returned series the diagnostic fields are those of the returned
\* actual values: calculated_mom is actual_value[i] / actual_value[i-1] * 100
\* for i > 0, calculated_yoy is actual_value[i] / actual_value[i-12] * 100 for
\* i >= 12, the errors are their distances to the published values, and the
\* match flags are the match tests of these calculated values.
C3_DiagnosticsOfReturnedValues ==
    Returned =>
        \A k \in 1..Len(result) :
            LET p == result[k]
            IN  /\ k > 1 =>
                    LET c == Ratio(p.actual_value, result[k - 1].actual_value)
                    IN  /\ p.calculated_mom = c
                        /\ p.mom_error = Abs(c - p.month_on_month * 100)
                        /\ p.mom_match <=> Abs(Round1(c) - p.month_on_month) < 5
                /\ k > 12 =>
                    LET c == Ratio(p.actual_value, result[k - 12].actual_value)
                    IN  /\ p.calculated_yoy = c
                        /\ p.yoy_error = Abs(c - p.year_on_year * 100)
                        /\ p.yoy_match <=> Abs(Round1(c) - p.year_on_year) < 5

\* a series is returned whose fifth final-correction round has overwritten
\* actual values
C3_Witness ==
    /\ Returned
    /\ force_iter = 5
    /\ Len(result) > 12
    /\ \E k \in 1..Len(result) : result[k].actual_value # round_start[k]

\* C4: calculate_corrected_values terminates; the sweep runs at most
\* max_iterations passes, and exactly max_iterations when its last pass did
\* not meet the tolerance test; at most 5 final-correction rounds follow; and
\* every turn of either while loop of _force_final_matching makes its list
\* one entry shorter.
C4_Terminates ==
    /\ <>(pc \in {"done", "error"})
    /\ [](/\ pc \in {"sweep", "precise", "chain"} => iteration < max_iterations
          /\ force_iter <= 5
          /\ pc \in {"force_build", "force_pop", "force_pop2"} => force_iter < 5
          /\ (/\ pc \in {"verify", "force_check", "force_build", "force_pop",
                         "force_pop2", "final_verify", "done"}
              /\ max_iterations > 0
              /\ max_adjustment >= tolerance)
             => iteration + 1 = max_iterations)
    /\ [][/\ (pc = "force_pop" /\ pc' = "force_pop")
             => Len(all_mismatches') = Len(all_mismatches) - 1
          /\ (pc = "force_pop2" /\ pc' = "force_pop2")
             => Len(remaining_mismatches') = Len(remaining_mismatches) - 1]_vars

\* a call has returned after a sweep that used up max_iterations without
\* meeting the tolerance test and after all 5 final-correction rounds
C4_Witness ==
    /\ Returned
    /\ max_iterations > 1
    /\ iteration + 1 = max_iterations
    /\ max_adjustment >= tolerance
    /\ force_iter = 5

\* C5: for observations with numeric MoM and YoY, any base value (zero
\* included) and any max_iterations, the calls never end in an error: no
\* division by a zero actual value is performed.
C5_NeverRaises == Numeric(price_data) => pc # "error"

\* C6: a series with an observation whose month_on_month or year_on_year is
\* absent is not answered with an error for the absent value, and the series
\* returned for it has the length of the input.
C6_AbsentIsSkipped ==
    ~Numeric(price_data) =>
        /\ error # "TypeError"
        /\ Returned => Len(result) = Len(price_data)

\* C7: calculate_actual_values returns one point per observation in input
\* order, the first with actual_value = base_value, every later one with
\* actual_value[i] = actual_value[i-1] * (1 + (month_on_month[i] - 100) / 100),
\* each with growth_rate = (month_on_month - 100) / 100; and the values do not
\* depend on any year_on_year.
Levels(res) == [k \in 1..Len(res) |-> <<res[k].actual_value, res[k].growth_rate>>]

WithYoy(data, y) == [k \in 1..Len(data) |-> [data[k] EXCEPT !.year_on_year = y]]

C7_ChainConstruction ==
    (pc # "start" /\ ~ActualValuesRaises(price_data)) =>
        /\ Len(basic_result) = Len(price_data)
        /\ \A k \in 1..Len(basic_result) :
             LET p == basic_result[k]
             IN  /\ p.date = price_data[k].date
                 /\ p.month_on_month = price_data[k].month_on_month
                 /\ p.year_on_year = price_data[k].year_on_year
                 /\ p.growth_rate = p.month_on_month - 10000
                 /\ p.actual_value =
                      IF k = 1
                      THEN base_value
                      ELSE MulDiv(basic_result[k - 1].actual_value,
                                  10000 + (p.month_on_month - 10000), 10000)
        /\ \A y \in {P1000, P1030, None} :
             Levels(CalculateActualValues(WithYoy(price_data, y), base_value))
             = Levels(basic_result)

\* calculate_actual_values has returned a chain of more than 12 points that
\* rises, for observations whose year-on-year values differ
C7_Witness ==
    /\ pc = "call_corrected"
    /\ Len(basic_result) > 12
    /\ basic_result[3].actual_value > basic_result[1].actual_value
    /\ basic_result[1].actual_value > 0
    /\ price_data[1].year_on_year # price_data[2].year_on_year

\* C8: for an input of length n <= 1 both calls return n points; for n = 1
\* the point has actual_value = base_value and, from the correction,
\* mom_match and yoy_match true, whatever number its published MoM is and
\* whatever its published YoY is.
C8_ShortSeries ==
    (Len(price_data) <= 1 /\ ~ActualValuesRaises(price_data)) =>
        /\ pc # "error"
        /\ pc # "start" =>
             /\ Len(basic_result) = Len(price_data)
             /\ Len(price_data) = 1 => basic_result[1].actual_value = base_value
        /\ Returned =>
             /\ Len(result) = Len(price_data)
             /\ Len(price_data) = 1 =>
                  /\ result[1].actual_value = base_value
                  /\ result[1].verified
                  /\ result[1].mom_match
                  /\ result[1].yoy_match

\* the correction of a single point with a published MoM of 100.5 has
\* returned
C8_Witness ==
    /\ Returned
    /\ Len(result) = 1
    /\ result[1].month_on_month = P1005
    /\ result[1].verified

\* C9: in every verification result point 0 has mom_match true and no
\* calculated_mom and mom_error, and every point i < 12 has yoy_match true and
\* no calculated_yoy and yoy_error; so a MoM mismatch is only ever at i > 0
\* and a YoY mismatch only at i >= 12.
C9_InapplicableDefaults ==
    \A k \in 1..Len(result) :
        LET p == result[k]
        IN  /\ (p.verified /\ k = 1) =>
                 p.mom_match /\ p.calculated_mom = None /\ p.mom_error = None
            /\ (p.verified /\ k <= 12) =>
                 p.yoy_match /\ p.calculated_yoy = None /\ p.yoy_error = None
            /\ ~p.mom_match => k > 1
            /\ ~p.yoy_match => k > 12

\* a verified series with a MoM mismatch and a YoY mismatch
C9_Witness ==
    /\ Len(result) > 12
    /\ \A k \in 1..Len(result) : result[k].verified
    /\ \E k \in 1..Len(result) : ~result[k].mom_match
    /\ \E k \in 1..Len(result) : ~result[k].yoy_match

\* C10: for a published value given to one decimal, the match flag of a
\* point is true exactly when the calculated percentage rounded to one
\* decimal equals the published value; and the mismatch tests of
\* _precise_matching_adjustment (on the values it reads at the head of a
\* turn) and of both scans of _force_final_matching are the negations of the
\* flags verification gives in the same state.
OneDecimal(v) == v # None /\ v % 10 = 0

C10_MatchIsRoundedEquality ==
    \A k \in 0..(Len(result) - 1) :
        LET v == VerifyDataConsistency(result, k)
            p == result[k + 1]
            fresh == pc \in {"force_build", "done"}
        IN  /\ (k > 0 /\ Val(result, k - 1) # 0 /\ OneDecimal(Mom(result, k))) =>
                 LET c == Ratio(Val(result, k), Val(result, k - 1))
                 IN  /\ v.mom_match <=> Round1(c) = Mom(result, k)
                     /\ fresh => (p.mom_match <=> Round1(c) = Mom(result, k))
                     /\ MismatchTest(c, Mom(result, k)) <=> ~v.mom_match
                     /\ PreciseAfterMom(result, k) # Val(result, k) => ~v.mom_match
                     /\ ScanMom(result, k) <=> ~v.mom_match
            /\ (k >= 12 /\ Val(result, k - 12) # 0 /\ OneDecimal(Yoy(result, k))) =>
                 LET c == Ratio(Val(result, k), Val(result, k - 12))
                 IN  /\ v.yoy_match <=> Round1(c) = Yoy(result, k)
                     /\ fresh => (p.yoy_match <=> Round1(c) = Yoy(result, k))
                     /\ MismatchTest(c, Yoy(result, k)) <=> ~v.yoy_match
                     /\ PrecisePointValue(result, k) # PreciseAfterMom(result, k)
                        => ~v.yoy_match
                     /\ ScanYoy(result, k) <=> ~v.yoy_match
            /\ (/\ k > 0 => Val(result, k - 1) # 0 /\ OneDecimal(Mom(result, k))
                /\ k >= 12 => Val(result, k - 12) # 0 /\ OneDecimal(Yoy(result, k)))
               => (HasMismatch(result, k) <=> ~(v.mom_match /\ v.yoy_match))

\* the final stage scans a series, published to one decimal, in which one
\* point matches in MoM and fails in YoY and another fails in MoM
C10_Witness ==
    /\ pc = "force_build"
    /\ \A k \in 1..Len(result) :
         OneDecimal(result[k].month_on_month) /\ OneDecimal(result[k].year_on_year)
    /\ \E k \in 13..Len(result) : result[k].mom_match /\ ~result[k].yoy_match
    /\ \E k \in 2..Len(result) : ~result[k].mom_match

\* C11: verification of the whole series changes no actual_value and no
\* published field, and a second verification with no correction step in
\* between gives the same calculated_mom, calculated_yoy, mom_error,
\* yoy_error, mom_match and yoy_match for every point; so the verification at
\* the head of the first final-correction round, which follows the
\* verification after the sweep, changes nothing.
DataFields(p) ==
    <<p.date, p.month_on_month, p.year_on_year, p.growth_rate, p.actual_value>>

C11_VerificationIsPure ==
    (result # <<>> /\ VerifyRaises(result) = "") =>
        LET once == VerifyAll(result)
            twice == VerifyAll(once)
        IN  /\ Len(once) = Len(result)
            /\ \A k \in 1..Len(result) : DataFields(once[k]) = DataFields(result[k])
            /\ twice = once
            /\ (pc = "force_check" /\ force_iter = 0) => once = result

\* the first final-correction round is about to verify again a series of more
\* than 12 points that has mismatches of both kinds
C11_Witness ==
    /\ pc = "force_check"
    /\ force_iter = 0
    /\ Len(result) > 12
    /\ \E k \in 1..Len(result) : ~result[k].mom_match /\ result[k].mom_error > 0
    /\ \E k \in 1..Len(result) : ~result[k].yoy_match

\* C12: calculate_corrected_values leaves the input series unchanged and
\* works on a series of the same length and order whose date, month_on_month,
\* year_on_year and growth_rate are, in every state and in the output, the
\* values derived from the input; a step of the sweep, of the precise-matching
\* pass, of the chain-effect pass or of the final correction changes, in the
\* points, nothing but actual_value (and verification nothing but the
\* diagnostics).  As stated in the claim: actual_value and the diagnostics
\* are the only fields that ever change.
Derived(p, data) ==
    /\ p.date = data.date
    /\ p.month_on_month = data.month_on_month
    /\ p.year_on_year = data.year_on_year
    /\ p.growth_rate = GrowthRate(data.month_on_month)

Diagnostics(p) ==
    <<p.verified, p.calculated_mom, p.calculated_yoy, p.mom_error, p.yoy_error,
      p.mom_match, p.yoy_match>>

InputKept ==
    /\ price_data' = price_data
    /\ result # <<>> => Len(result') = Len(result)

DerivedKept ==
    /\ result # <<>> =>
         /\ Len(result) = Len(price_data)
         /\ \A k \in 1..Len(result) : Derived(result[k], price_data[k])

C12_OnlyActualValueChanges ==
    /\ []DerivedKept
    /\ [][/\ InputKept
          /\ result # <<>> =>
               \A k \in 1..Len(result) :
                   [result'[k] EXCEPT !.actual_value = result[k].actual_value,
                                      !.verified = result[k].verified,
                                      !.calculated_mom = result[k].calculated_mom,
                                      !.calculated_yoy = result[k].calculated_yoy,
                                      !.mom_error = result[k].mom_error,
                                      !.yoy_error = result[k].yoy_error,
                                      !.mom_match = result[k].mom_match,
                                      !.yoy_match = result[k].yoy_match]
                   = result[k]]_vars

\* C12, amended: the same, with the marker `corrected`, which the damped
\* sweep sets on every point it updates, among the fields that change: a
\* step of the sweep changes actual_value and sets corrected, a step of the
\* precise-matching pass, the chain-effect pass or the final correction
\* changes only actual_value, and a verification changes only diagnostics.
C12_FrameWithMarker ==
    /\ []DerivedKept
    /\ [][/\ InputKept
          /\ result # <<>> =>
               \A k \in 1..Len(result) :
                   /\ [result'[k] EXCEPT !.actual_value = result[k].actual_value,
                                         !.corrected = result[k].corrected]
                      = [result[k] EXCEPT !.verified = result'[k].verified,
                                          !.calculated_mom = result'[k].calculated_mom,
                                          !.calculated_yoy = result'[k].calculated_yoy,
                                          !.mom_error = result'[k].mom_error,
                                          !.yoy_error = result'[k].yoy_error,
                                          !.mom_match = result'[k].mom_match,
                                          !.yoy_match = result'[k].yoy_match]
                   /\ result'[k].corrected # result[k].corrected
                      => pc = "sweep" /\ result'[k].corrected
                   /\ Diagnostics(result'[k]) # Diagnostics(result[k])
                      => /\ pc \in {"verify", "force_check", "final_verify"}
                         /\ result'[k].actual_value = result[k].actual_value
                   /\ pc \in {"precise", "chain", "force_pop", "force_pop2"}
                      => result'[k].corrected = result[k].corrected]_vars

\* a series of more than 12 points has been returned whose levels were
\* changed by the sweep and by the final correction
C12_Witness ==
    /\ Returned
    /\ Len(result) > 12
    /\ force_writes > 0
    /\ iteration > 10
    /\ \E k \in 1..Len(result) :
         /\ result[k].corrected
         /\ result[k].actual_value # basic_result[k].actual_value
         /\ result[k].month_on_month # P1000

\* C13: calls on one engine instance are independent.  Call 0 runs alone;
\* then call 1, with the arguments of call 0, and call 2 run on the same
\* engine with their steps interleaved in any way: call 1 ends as call 0 did,
\* it leaves the sweep after the same number of passes with the same largest
\* adjustment, and it returns the series call 0 returned; and when calls 1
\* and 2 were given equal arguments they return equal series.
FrameOf(call) == IF sched.self = call THEN Frame ELSE sched.saved

AfterSweep(frame) ==
    frame.pc \in {"verify", "force_check", "force_build", "force_pop",
                  "force_pop2", "final_verify", "done"}

C13_CallsAreIndependent ==
    sched.phase = "pair" =>
        /\ FrameOf(1).pc # "error"
        /\ AfterSweep(FrameOf(1)) =>
             /\ FrameOf(1).iteration = sched.solo.iteration
             /\ FrameOf(1).max_adjustment = sched.solo.max_adjustment
        /\ FrameOf(1).pc = "done" => FrameOf(1).result = sched.solo.result
        /\ (/\ FrameOf(1).pc = "done"
            /\ FrameOf(2).pc = "done"
            /\ FrameOf(1).price_data = FrameOf(2).price_data)
           => FrameOf(1).result = FrameOf(2).result

\* a call on a series of more than 12 points has returned after it was
\* suspended, while at work, for a call on another series that was at work
C13_Witness ==
    /\ sched.phase = "pair"
    /\ sched.mixed
    /\ FrameOf(1).pc = "done"
    /\ FrameOf(2).pc = "done"
    /\ Len(FrameOf(1).result) > 12
    /\ FrameOf(1).force_writes > 0
    /\ FrameOf(2).price_data # FrameOf(1).price_data

\* C14: a pass of the damped sweep writes one list in increasing index
\* order: when the pass stands at point i, every point from i on still has
\* its value of the head of the pass, and every point j < i has the value
\* damped towards the ideal value that _calculate_ideal_value gives for the
\* list as it is now, in which the points j-1 and j-12 hold the values written
\* earlier in this pass; and a turn of the pass goes from point i to i + 1.
C14_SweepSeesUpdatedValues ==
    /\ [](pc = "sweep" =>
            /\ i \in 0..(N(result) - 1)
            /\ \A j \in i..(N(result) - 1) : Val(result, j) = pass_start[j + 1]
            /\ Val(result, 0) = pass_start[1]
            /\ \A j \in 1..(i - 1) :
                 Val(result, j) =
                     DampedValue(pass_start[j + 1], CalculateIdealValue(result, j),
                                 DampingFactor(iteration, max_iterations)))
    /\ [][(pc = "sweep" /\ pc' = "sweep" /\ iteration' = iteration)
          => i' = i + 1]_vars

\* a pass stands beyond point 12 of a series in which a point already
\* written has an ideal value that the values of the head of the pass would
\* not have given
C14_Witness ==
    /\ pc = "sweep"
    /\ i > 12
    /\ \E j \in 1..(i - 1) :
         /\ Val(result, j - 1) # pass_start[j]
         /\ CalculateIdealValue(result, j)
            # CalculateIdealValue(WithValues(result, pass_start), j)

\* C15: _calculate_ideal_value gives no value for index 0,
\* actual_value[i-1] * month_on_month[i] / 100 for 1 <= i <= 11, and
\* 0.3 * (actual_value[i-1] * month_on_month[i] / 100)
\* + 0.7 * (actual_value[i-12] * year_on_year[i] / 100) for i >= 12; and a turn
\* of the damped sweep sets actual_value[i] to
\* actual_value[i] + (ideal - actual_value[i]) * damping, and leaves it alone
\* when there is no ideal value.
C15_IdealValueAndDampedUpdate ==
    /\ [](\A k \in 0..(N(result) - 1) :
            (k < 12 \/ Yoy(result, k) # None) =>
                CalculateIdealValue(result, k) =
                    IF k = 0
                    THEN None
                    ELSE IF k <= 11
                         THEN MulDiv(Val(result, k - 1), Mom(result, k), 10000)
                         ELSE MulDiv(MulDiv(Val(result, k - 1), Mom(result, k),
                                            10000), 3, 10)
                              + MulDiv(MulDiv(Val(result, k - 12), Yoy(result, k),
                                              10000), 7, 10))
    /\ [][(pc = "sweep" /\ pc' # "error") =>
            LET ideal == CalculateIdealValue(result, i)
                damping == DampingFactor(iteration, max_iterations)
            IN  Val(result', i) =
                    IF i = 0
                    THEN Val(result, i)
                    ELSE Val(result, i)
                         + MulDiv(ideal - Val(result, i), damping, 10000)]_vars

\* a pass after the first has moved points 12 and 13, which have both
\* constraints, after it passed the points that have only the month-on-month
\* constraint
C15_Witness ==
    /\ pc = "sweep"
    /\ iteration > 0
    /\ i = 14
    /\ Val(result, 12) # pass_start[13]
    /\ Val(result, 13) # pass_start[14]
    /\ CalculateIdealValue(result, 11) # None

\* the test that ends a pass is made
AtConvergenceCheck == pc = "chain" /\ i >= N(result)

\* C16: the sweep stops after the first pass in which the largest amount a
\* damped update added to a point is below tolerance, and it does not stop,
\* while passes are left, after a pass in which a damped update changed a
\* point by tolerance or more.
C16_StopsOnAppliedAdjustment ==
    [][AtConvergenceCheck =>
          /\ max_applied < tolerance => pc' = "verify"
          /\ (pc' = "verify" /\ iteration + 1 < max_iterations)
             => max_applied < tolerance]_vars

\* C16, amended: the sweep stops after the first pass in which the largest
\* distance |ideal - actual_value| that a damped update found before damping
\* is below tolerance, and while passes are left it stops after no other
\* pass; so it does not stop early after a pass in which a damped update
\* changed a point by tolerance or more, but it goes on after a pass whose
\* damped updates all added less than tolerance when one of them found a
\* distance of tolerance or more.
C16_StopsOnDistanceBeforeDamping ==
    /\ [](AtConvergenceCheck => max_applied <= max_adjustment)
    /\ [][AtConvergenceCheck =>
            /\ max_adjustment < tolerance => pc' = "verify"
            /\ (pc' = "verify" /\ iteration + 1 < max_iterations)
               => (max_adjustment < tolerance /\ max_applied < tolerance)
            /\ pc' = "sweep"
               => (max_adjustment >= tolerance /\ iteration' = iteration + 1)]_vars

\* a pass of a series of more than 12 points ends with every damped update
\* below tolerance and a distance before damping of tolerance or more, and
\* with passes left
C16_Witness ==
    /\ AtConvergenceCheck
    /\ Len(result) > 12
    /\ max_applied < tolerance
    /\ max_adjustment >= tolerance
    /\ iteration + 1 < max_iterations

\* a step of the sweep loop that ends without an exception
InPass == pc \in {"sweep", "precise", "chain"} /\ pc' # "error"

\* C17: the precise-matching pass runs in every sweep pass whose iteration
\* index is greater than 10 and in no pass with index 0..10; where it runs it
\* runs once over all points, after the damped update of the last point and
\* before the chain-effect propagation; and the chain-effect propagation
\* runs over points 1..n-1 in every pass, the pass after which the sweep
\* stops included.
C17_PassOrder ==
    [][InPass =>
         /\ (pc = "sweep" /\ i + 1 < N(result))
            => (pc' = "sweep" /\ i' = i + 1 /\ iteration' = iteration)
         /\ (pc = "sweep" /\ i + 1 >= N(result) /\ iteration > 10)
            => (pc' = "precise" /\ i' = 0 /\ iteration' = iteration)
         /\ (pc = "sweep" /\ i + 1 >= N(result) /\ iteration <= 10)
            => (pc' = "chain" /\ i' = 1 /\ iteration' = iteration)
         /\ (pc = "precise" /\ i + 1 < N(result))
            => (pc' = "precise" /\ i' = i + 1 /\ iteration' = iteration)
         /\ (pc = "precise" /\ i + 1 >= N(result))
            => (pc' = "chain" /\ i' = 1 /\ iteration' = iteration)
         /\ (pc = "chain" /\ i < N(result))
            => (pc' = "chain" /\ i' = i + 1 /\ iteration' = iteration)
         /\ (pc = "chain" /\ i >= N(result))
            => \/ pc' = "verify" /\ iteration' = iteration
               \/ pc' = "sweep" /\ i' = 0 /\ iteration' = iteration + 1
         /\ pc' = "precise" => iteration > 10
         /\ pc' = "verify" => (pc = "chain" /\ i >= N(result))]_vars

\* the precise-matching pass is at work in a second pass after the threshold
C17_Witness ==
    /\ pc = "precise"
    /\ iteration > 11
    /\ i > Lag

\* point k fails the month-on-month test, the year-on-year test
FailsMom(res, k) ==
    k > 0 /\ MismatchTest(Ratio(Val(res, k), Val(res, k - 1)), Mom(res, k))

FailsYoy(res, k) ==
    k >= Lag /\ MismatchTest(Ratio(Val(res, k), Val(res, k - Lag)), Yoy(res, k))

\* the nudges of point k taken one after the other: 30% of the distance to
\* the month-on-month value, then 50% of the distance from the value so
\* reached to the year-on-year value
CompoundedValue(res, k) ==
    LET nudged == IF FailsMom(res, k)
                  THEN Val(res, k)
                       + MulDiv(Implied(Val(res, k - 1), Mom(res, k)) - Val(res, k),
                                3, 10)
                  ELSE Val(res, k)
    IN  IF FailsYoy(res, k)
        THEN nudged
             + MulDiv(Implied(Val(res, k - Lag), Yoy(res, k)) - nudged, 5, 10)
        ELSE nudged

\* a turn of the precise-matching loop that ends without an exception
PreciseTurn == pc = "precise" /\ i < N(result) /\ pc' # "error"

\* C18: in one call of _precise_matching_adjustment a point that fails both
\* tests is moved by 30% of its distance to the month-on-month value and then
\* by 50% of the distance between the value so reached and the year-on-year
\* value; a point that passes a test gets no nudge for that constraint.
C18_NudgesCompound ==
    [][PreciseTurn => Val(result', i) = CompoundedValue(result, i)]_vars

\* a turn of the loop of _update_all_chain_effects
ChainTurn == pc = "chain" /\ i < N(result)

\* current * 0.7 + implied * 0.3 when they differ by more than 0.1
Blended(current, implied) ==
    IF Abs(current - implied) * 10 > Unit
    THEN MulDiv(current, 7, 10) + MulDiv(implied, 3, 10)
    ELSE current

\* the points the current call of _update_all_chain_effects has visited
Visited == 1..(Max(1, IF i < N(result) THEN i ELSE N(result)) - 1)

\* C19: _update_all_chain_effects visits points 1..n-1 in increasing order;
\* for each it computes implied = actual_value[i-1] * month_on_month[i] / 100
\* from the previous point's value as already blended in this call, sets
\* actual_value[i] to 0.7 * actual_value[i] + 0.3 * implied when the two
\* differ by more than 0.1 and leaves the point unchanged otherwise.
C19_ChainEffects ==
    /\ [](pc = "chain" =>
            /\ i >= 1
            /\ Val(result, 0) = chain_start[1]
            /\ \A k \in Visited :
                   Val(result, k) =
                       Blended(chain_start[k + 1],
                               Implied(Val(result, k - 1), Mom(result, k)))
            /\ \A k \in 1..(N(result) - 1) :
                   k \notin Visited => Val(result, k) = chain_start[k + 1])
    /\ [][ChainTurn =>
            /\ pc' = "chain"
            /\ i' = i + 1
            /\ Val(result', i) =
                   Blended(Val(result, i),
                           Implied(Val(result, i - 1), Mom(result, i)))]_vars

\* a call of _update_all_chain_effects has ended in which two neighbours were
\* blended, the second one toward a value implied by the blended first one,
\* and a point off its implied value by 0.1 or less was left alone
C19_Witness ==
    /\ pc = "chain"
    /\ i = N(result)
    /\ \E k \in 1..(N(result) - 2) :
         /\ Val(result, k) # chain_start[k + 1]
         /\ Val(result, k + 1) # chain_start[k + 2]
         /\ Val(result, k + 1)
            # Blended(chain_start[k + 2],
                      Implied(chain_start[k + 1], Mom(result, k + 1)))
    /\ \E j \in 1..(N(result) - 1) :
         /\ Val(result, j) = chain_start[j + 1]
         /\ Val(result, j) # Implied(Val(result, j - 1), Mom(result, j))

\* a turn of the damped sweep that updates its point
DampedTurn ==
    /\ pc = "sweep"
    /\ i < N(result)
    /\ ~IdealValueRaises(result, i)
    /\ CalculateIdealValue(result, i) # None

\* C20: in every pass of the sweep (iteration 0 .. max_iterations - 1,
\* max_iterations >= 1) the damping factor is max(0.1, 0.8 * (1 - iteration /
\* max_iterations)), lies in [0.1, 0.8] and does not increase from one pass
\* to the next, so a damped update moves its point part of the way toward the
\* ideal value (between 0.1 and 0.8 of the distance, to the nearest unit) and
\* never past it.
C20_DampingFactor ==
    /\ [](pc \in {"sweep", "precise", "chain"} =>
            LET damping_factor == DampingFactor(iteration, max_iterations)
                linear == 8 * Unit * (max_iterations - iteration)
            IN  /\ max_iterations >= 1
                /\ iteration \in 0..(max_iterations - 1)
                /\ damping_factor >= Unit \div 10
                /\ damping_factor <= 8 * (Unit \div 10)
                /\ iteration = 0 => damping_factor = 8 * (Unit \div 10)
                /\ IF linear >= Unit * max_iterations
                   THEN Abs(10 * max_iterations * damping_factor - linear)
                            <= 5 * max_iterations
                   ELSE damping_factor = Unit \div 10)
    /\ [][(pc = "chain" /\ pc' = "sweep") =>
             DampingFactor(iteration', max_iterations')
                 <= DampingFactor(iteration, max_iterations)]_vars
    /\ [][DampedTurn =>
             LET gap == CalculateIdealValue(result, i) - Val(result, i)
                 added == Val(result', i) - Val(result, i)
             IN  /\ gap >= 0 => added >= 0
                 /\ gap <= 0 => added <= 0
                 /\ Abs(added) <= Abs(gap)
                 /\ 10 * Abs(added) <= 8 * Abs(gap) + 5
                 /\ 10 * Abs(added) >= Abs(gap) - 5
                 /\ Abs(gap) >= 3 => Abs(added) < Abs(gap)
                 /\ Abs(gap) >= 6 => Abs(added) >= 1]_vars

\* the sweep is in a pass in which the damping factor is held at 0.1, after
\* passes in which it was smaller from pass to pass, and has moved a point
C20_Witness ==
    /\ pc = "sweep"
    /\ iteration > 1
    /\ 8 * (max_iterations - iteration) < max_iterations
    /\ DampingFactor(iteration - 1, max_iterations)
           < DampingFactor(iteration - 2, max_iterations)
    /\ i > Lag
    /\ Val(result, Lag) # pass_start[Lag + 1]

\* the steps of _force_final_matching
InForce == pc \in {"force_build", "force_pop", "force_pop2"}

\* C21: in the final stage the whole series is verified again at the head of
\* each round; _force_final_matching is called at most 5 times, and only in a
\* round whose fresh total of MoM and YoY mismatches exceeds 2; no round
\* follows a round that found a total of 2 or less; and when the total is 2
\* or less right after the sweep the final stage changes no actual_value.
C21_FinalStageRounds ==
    /\ [](/\ force_iter \in 0..5
          /\ InForce => force_iter < 5
          /\ pc = "force_check" => force_iter < 5)
    /\ [][/\ pc' = "force_build" =>
                /\ pc = "force_check"
                /\ result' = VerifyAll(result)
                /\ TotalMismatches(result') > 2
                /\ MomMismatches(result') + YoyMismatches(result') > 2
          /\ (pc = "force_check" /\ pc' # "error") =>
                /\ result' = VerifyAll(result)
                /\ TotalMismatches(result') <= 2 => pc' = "final_verify"
                /\ force_iter' = force_iter
          /\ (InForce /\ pc' \notin {"force_build", "force_pop", "force_pop2"}) =>
                /\ force_iter' = force_iter + 1
                /\ pc' \in {"force_check", "final_verify"}
          /\ pc \in {"verify", "force_check", "final_verify"} =>
                Values(result') = Values(result)
          /\ pc = "final_verify" => pc' \in {"done", "error", "final_verify"}
          /\ pc = "verify" => pc' \in {"force_check", "error", "verify"}]_vars

\* a round found a total of 2 or less after an earlier round had run
\* _force_final_matching and changed a value
C21_Witness ==
    /\ pc = "final_verify"
    /\ force_iter \in 1..4
    /\ force_writes > 0
    /\ TotalMismatches(result) <= 2

\* the series with the values the current call of _force_final_matching
\* started from
AtRoundStart == WithValues(result, round_start)

\* point k fails the MoM test, the YoY test, on the values of `res`
MomFails(res, k) ==
    k > 0 /\ Abs(Round1(Ratio(Val(res, k), Val(res, k - 1))) - Mom(res, k)) >= 5

YoyFails(res, k) ==
    k >= 12
    /\ Abs(Round1(Ratio(Val(res, k), Val(res, k - 12))) - Yoy(res, k)) >= 5

\* a turn of the first while loop
FirstPhaseTurn == pc = "force_pop" /\ pc' = "force_pop"

\* C22: in the first phase of _force_final_matching a mismatching point has
\* priority 1 for a MoM mismatch plus 2 for a YoY mismatch; points are taken
\* in descending priority, equal priorities in increasing index order; a
\* taken point is overwritten exactly with actual_value[i-12] *
\* year_on_year[i] / 100 when it has a YoY mismatch and otherwise with
\* actual_value[i-1] * month_on_month[i] / 100; the list is built once, so
\* the two lowest-ranked entries are not snapped in this phase.
C22_FirstPhase ==
    /\ [](pc = "force_pop" =>
            /\ \A n \in 1..Len(all_mismatches) :
                 LET m == all_mismatches[n]
                 IN  /\ m.index \in 0..(N(result) - 1)
                     /\ "mom" \in m.type <=> MomFails(AtRoundStart, m.index)
                     /\ "yoy" \in m.type <=> YoyFails(AtRoundStart, m.index)
                     /\ m.priority = (IF "mom" \in m.type THEN 1 ELSE 0)
                                     + (IF "yoy" \in m.type THEN 2 ELSE 0)
                     /\ m.priority >= 1
                     /\ Val(result, m.index) = round_start[m.index + 1]
            /\ \A n \in 1..(Len(all_mismatches) - 1) :
                 \/ all_mismatches[n].priority > all_mismatches[n + 1].priority
                 \/ /\ all_mismatches[n].priority = all_mismatches[n + 1].priority
                    /\ all_mismatches[n].index < all_mismatches[n + 1].index
            /\ \A k \in 0..(N(result) - 1) :
                 (MomFails(AtRoundStart, k) \/ YoyFails(AtRoundStart, k))
                 => \/ \E n \in 1..Len(all_mismatches) : all_mismatches[n].index = k
                    \/ Len(all_mismatches) >= 2)
    /\ [][FirstPhaseTurn =>
            LET m == Head(all_mismatches)
                k == m.index
            IN  /\ Len(all_mismatches) > 2
                /\ all_mismatches' = Tail(all_mismatches)
                /\ Val(result', k) =
                     IF "yoy" \in m.type
                     THEN MulDiv(Val(result, k - 12), Yoy(result, k), 100 * Pub)
                     ELSE MulDiv(Val(result, k - 1), Mom(result, k), 100 * Pub)
                /\ \A j \in 0..(N(result) - 1) :
                     j # k => Val(result', j) = Val(result, j)]_vars
    /\ [][(pc = "force_pop" /\ pc' # "force_pop") =>
            /\ Len(all_mismatches) <= 2
            /\ all_mismatches' = all_mismatches]_vars

\* the first while loop has snapped a point and holds entries of different
\* priorities and two entries of one priority
C22_Witness ==
    /\ pc = "force_pop"
    /\ force_writes > 0
    /\ Len(all_mismatches) > 2
    /\ Head(all_mismatches).priority > all_mismatches[Len(all_mismatches)].priority
    /\ all_mismatches[1].priority = all_mismatches[2].priority

\* C23: every round of the final stage entered with a verified total of MoM
\* mismatches plus YoY mismatches above 2 overwrites the actual_value of at
\* least one mismatching point: its list of mismatching points is longer
\* than 2, so the first while loop pops and snaps an entry.
C23_RoundIsNeverNoOp ==
    [][pc = "force_build" => Len(all_mismatches') > 2]_vars

\* a turn of the second while loop
SecondPhaseTurn == pc = "force_pop2" /\ Len(remaining_mismatches) > 2 /\ pc' = "force_pop2"

YoyImplied(res, k) == MulDiv(Val(res, k - 12), Yoy(res, k), 100 * Pub)

MomImplied(res, k) == MulDiv(Val(res, k - 1), Mom(res, k), 100 * Pub)

\* C24: in the second phase of _force_final_matching the earliest remaining
\* mismatch is snapped with the rule of the first phase: to the YoY value
\* only when the point has a YoY mismatch (and i >= 12), and to the MoM value
\* actual_value[i-1] * month_on_month[i] / 100 when its only mismatch is MoM.
C24_SecondPhaseSnapsByType ==
    [][SecondPhaseTurn =>
         LET k == Head(remaining_mismatches)
         IN  /\ YoyFails(result, k) => Val(result', k) = YoyImplied(result, k)
             /\ (MomFails(result, k) /\ ~YoyFails(result, k))
                => Val(result', k) = MomImplied(result, k)]_vars

\* C24, amended: the second phase lists the mismatching points in increasing
\* index order and, while more than 2 are listed, snaps the earliest one by
\* its index alone: to the YoY value actual_value[i-12] * year_on_year[i] /
\* 100 whenever i >= 12, whichever test the point fails, and to the MoM value
\* actual_value[i-1] * month_on_month[i] / 100 only when 1 <= i < 12.
C24_SecondPhaseSnapsByIndex ==
    /\ [](pc = "force_pop2" =>
            /\ \A n \in 1..(Len(remaining_mismatches) - 1) :
                 remaining_mismatches[n] < remaining_mismatches[n + 1]
            /\ \A n \in 1..Len(remaining_mismatches) :
                 remaining_mismatches[n] \in 1..(N(result) - 1))
    /\ [][(pc = "force_pop" /\ pc' = "force_pop2") =>
            \A k \in 0..(N(result) - 1) :
                (MomFails(result, k) \/ YoyFails(result, k))
                <=> \E n \in 1..Len(remaining_mismatches') :
                        remaining_mismatches'[n] = k]_vars
    /\ [][SecondPhaseTurn =>
            LET k == Head(remaining_mismatches)
            IN  /\ remaining_mismatches' = Tail(remaining_mismatches)
                /\ k >= 12 => Val(result', k) = YoyImplied(result, k)
                /\ k < 12 => Val(result', k) = MomImplied(result, k)
                /\ \A j \in 0..(N(result) - 1) :
                     j # k => Val(result', j) = Val(result, j)]_vars

\* the second while loop is about to snap a point past the first year whose
\* only mismatch is MoM, and whose MoM and YoY values differ
C24_Witness ==
    /\ pc = "force_pop2"
    /\ Len(remaining_mismatches) > 2
    /\ LET k == Head(remaining_mismatches)
       IN  /\ k >= 12
           /\ MomFails(result, k)
           /\ ~YoyFails(result, k)
           /\ YoyImplied(result, k) # MomImplied(result, k)

\* the points that fail a test on the values of `res`
MismatchingPoints(res) ==
    {k \in 0..(N(res) - 1) : MomFails(res, k) \/ YoyFails(res, k)}

\* C25: when _force_final_matching returns, at most 2 points of the series
\* fail the MoM test, the YoY test or both on the actual values it leaves.
C25_ForceLeavesAtMostTwo ==
    (pc = "force_pop2" /\ Len(remaining_mismatches) <= 2)
    => Cardinality(MismatchingPoints(result)) <= 2

\* a series of at most 12 points with a non-zero base value and non-zero MoM
\* values given to one decimal
FirstYearOnly ==
    /\ Len(price_data) <= 12
    /\ base_value # 0
    /\ \A k \in 1..Len(price_data) :
         /\ OneDecimal(price_data[k].month_on_month)
         /\ price_data[k].month_on_month # 0

----------------------------------------------------------------------------
\* BatchProcessor._calculate_statistics

\* sum(1 for d in corrected_result if d.get('mom_match', False))
mom_matches(corrected_result) ==
    Cardinality({k \in 1..Len(corrected_result) : corrected_result[k].mom_match})

\* sum(1 for d in corrected_result if d.get('yoy_match', False))
yoy_matches(corrected_result) ==
    Cardinality({k \in 1..Len(corrected_result) : corrected_result[k].yoy_match})

\* sum(1 for d in corrected_result if d.get('calculated_mom') is not None)
valid_mom(corrected_result) ==
    Cardinality({k \in 1..Len(corrected_result) :
                    corrected_result[k].calculated_mom # None})

\* sum(1 for d in corrected_result if d.get('calculated_yoy') is not None)
valid_yoy(corrected_result) ==
    Cardinality({k \in 1..Len(corrected_result) :
                    corrected_result[k].calculated_yoy # None})

\* (matches / valid * 100) if valid > 0 else 0, in hundredths of a percent
MatchRate(matches, valid) ==
    IF valid > 0 THEN RoundDiv(matches * 100 * Pub, valid) ELSE 0

mom_match_rate(corrected_result) ==
    MatchRate(mom_matches(corrected_result), valid_mom(corrected_result))

yoy_match_rate(corrected_result) ==
    MatchRate(yoy_matches(corrected_result), valid_yoy(corrected_result))

\* C27: in the statistics of a reconciled series the MoM matches are at most
\* the points that have a calculated MoM, the YoY matches are at most the
\* points that have a calculated YoY, and both match rates lie in 0..100.
C27_MatchRatesWithinRange ==
    (Returned /\ result # <<>>) =>
        /\ mom_matches(result) <= valid_mom(result)
        /\ yoy_matches(result) <= valid_yoy(result)
        /\ mom_match_rate(result) \in 0..(100 * Pub)
        /\ yoy_match_rate(result) \in 0..(100 * Pub)

----------------------------------------------------------------------------
\* The callers of the engine and the programs around it

\* the variables of a call of the engine
engine_vars ==
    <<price_data, base_value, max_iterations, basic_result, result, pc,
      iteration, i, max_adjustment, force_iter, all_mismatches,
      remaining_mismatches, error, force_writes, round_start, pass_start,
      max_applied, chain_start, sched>>

\* the variables of a call hold the values of `frame`
Holds(frame) ==
    /\ price_data = frame.price_data
    /\ base_value = frame.base_value
    /\ max_iterations = frame.max_iterations
    /\ basic_result = frame.basic_result
    /\ result = frame.result
    /\ pc = frame.pc
    /\ iteration = frame.iteration
    /\ i = frame.i
    /\ max_adjustment = frame.max_adjustment
    /\ force_iter = frame.force_iter
    /\ all_mismatches = frame.all_mismatches
    /\ remaining_mismatches = frame.remaining_mismatches
    /\ error = frame.error
    /\ force_writes = frame.force_writes
    /\ round_start = frame.round_start
    /\ pass_start = frame.pass_start
    /\ max_applied = frame.max_applied
    /\ chain_start = frame.chain_start

\* no call of the engine has been made
EngineIdle ==
    /\ Holds([EntryFrame(<<>>, DefaultBaseValue, DefaultMaxIterations)
                 EXCEPT !.pc = "idle"])
    /\ sched = OneCall

----------------------------------------------------------------------------
\* BatchProcessor.process_all and process_city_index

NumCities == 2
NumConfigs == 2

\* get_all_cities: the sorted list of the city names of the latest file
AllCities == {[k \in 1..n |-> k] : n \in 0..NumCities}

\* what extract_city_data and extract_city_classified_data can return: no
\* observation, a series the engine settles, a series on which the engine
\* divides by zero, and a series that takes the engine through every stage
BatchSeries ==
    {<<>>,
     Series(2, P1000, P1010, P1000, P1000),
     Series(3, P1000, 0, P1000, P1000),
     Series(Lag + 3, P1000, P1000, P1030, P1030)}

\* the engine between two calls
IdleFrame ==
    [EntryFrame(<<>>, DefaultBaseValue, DefaultMaxIterations)
        EXCEPT !.pc = "idle"]

\* the record that process_city_index returns
CityResult(city, status, error_message) ==
    [city |-> city, status |-> status, error_message |-> error_message]

InitBatch ==
    /\ EngineIdle
    /\ fetch = <<>>
    /\ web = <<>>
    /\ \E cities \in AllCities :
           batch = [pc |-> "for_config", cities |-> cities, config |-> 0,
                    city |-> 0, result |-> <<>>, results |-> <<>>,
                    success_count |-> 0, no_data_count |-> 0,
                    error_count |-> 0, files |-> 0]

\* for config in self.index_configs, down to the head of the loop over the
\* cities
BatchForConfig ==
    /\ batch # <<>>
    /\ batch.pc = "for_config"
    /\ batch' = IF batch.config < NumConfigs
                THEN [batch EXCEPT !.pc = "for_city",
                                   !.config = batch.config + 1,
                                   !.city = 0, !.results = <<>>,
                                   !.success_count = 0, !.no_data_count = 0,
                                   !.error_count = 0]
                ELSE [batch EXCEPT !.pc = "end"]
    /\ UNCHANGED <<engine_vars, fetch, web>>

\* for i, city in enumerate(cities, 1)
BatchForCity ==
    /\ batch # <<>>
    /\ batch.pc = "for_city"
    /\ batch' = IF batch.city < Len(batch.cities)
                THEN [batch EXCEPT !.pc = "process_city_index",
                                   !.city = batch.city + 1]
                ELSE [batch EXCEPT !.pc = "save"]
    /\ UNCHANGED <<engine_vars, fetch, web>>

\* process_city_index down to the calls of the engine: the extraction raises,
\* finds nothing, or finds a series and the engine is called with it
ProcessCityIndex ==
    /\ batch # <<>>
    /\ batch.pc = "process_city_index"
    /\ \E raises \in BOOLEAN, city_data \in BatchSeries :
        LET city == batch.cities[batch.city] IN
        IF raises
        THEN /\ batch' = [batch EXCEPT
                             !.pc = "returned",
                             !.result = CityResult(city, "error", "extraction")]
             /\ UNCHANGED engine_vars
        ELSE IF city_data = <<>>
        THEN /\ batch' = [batch EXCEPT
                             !.pc = "returned",
                             !.result = CityResult(city, "no_data", "")]
             /\ UNCHANGED engine_vars
        ELSE /\ batch' = [batch EXCEPT !.pc = "engine"]
             /\ Resume(EntryFrame(city_data, DefaultBaseValue,
                                  DefaultMaxIterations))
             /\ UNCHANGED sched
    /\ UNCHANGED <<fetch, web>>

\* an exception of the engine escapes process_city_index and ends process_all
ProcessCityIndexPropagates ==
    /\ batch # <<>>
    /\ batch.pc = "engine"
    /\ pc \in {"done", "error"}
    /\ batch' = IF pc = "done"
                THEN [batch EXCEPT
                         !.pc = "returned",
                         !.result = CityResult(batch.cities[batch.city],
                                               "success", "")]
                ELSE [batch EXCEPT !.pc = "save"]
    /\ Resume(IdleFrame)
    /\ UNCHANGED <<sched, fetch, web>>

\* the engine has returned or raised: process_city_index returns the record
\* of a success, or the one that its except clause builds
ProcessCityIndexReturn ==
    /\ batch # <<>>
    /\ batch.pc = "engine"
    /\ pc \in {"done", "error"}
    /\ batch' = [batch EXCEPT
                    !.pc = "returned",
                    !.result =
                        IF pc = "done"
                        THEN CityResult(batch.cities[batch.city], "success", "")
                        ELSE CityResult(batch.cities[batch.city], "error", error)]
    /\ Resume(IdleFrame)
    /\ UNCHANGED <<sched, fetch, web>>

\* results.append(result) and the count of its status
BatchCount ==
    /\ batch # <<>>
    /\ batch.pc = "returned"
    /\ batch' = [batch EXCEPT
                    !.pc = "for_city",
                    !.result = <<>>,
                    !.results = Append(batch.results, batch.result),
                    !.success_count =
                        IF batch.result.status = "success"
                        THEN batch.success_count + 1 ELSE batch.success_count,
                    !.no_data_count =
                        IF batch.result.status = "no_data"
                        THEN batch.no_data_count + 1 ELSE batch.no_data_count,
                    !.error_count =
                        IF batch.result.status \notin {"success", "no_data"}
                        THEN batch.error_count + 1 ELSE batch.error_count]
    /\ UNCHANGED <<engine_vars, fetch, web>>

\* what process_all writes to the file of the index type
output_data ==
    [total_cities |-> Len(batch.cities),
     success_count |-> batch.success_count,
     no_data_count |-> batch.no_data_count,
     error_count |-> batch.error_count,
     cities |-> batch.results]

\* json.dump(output_data, f): one more file is written
BatchSave ==
    /\ batch # <<>>
    /\ batch.pc = "save"
    /\ batch' = [batch EXCEPT !.pc = "for_config", !.files = batch.files + 1]
    /\ UNCHANGED <<engine_vars, fetch, web>>

NextBatch ==
    \/ BatchForConfig
    \/ BatchForCity
    \/ ProcessCityIndex
    \/ Next
    \/ ProcessCityIndexReturn
    \/ BatchCount
    \/ BatchSave

SpecBatch == InitBatch /\ [][NextBatch]_vars

\* the record of the city at hand, once process_city_index has returned
CityReturned == batch # <<>> /\ batch.pc = "returned"

\* the file of an index type is about to be written
AtSave == batch # <<>> /\ batch.pc = "save"

\* C28: process_city_index never lets an exception escape: whenever the
\* extraction or the engine fails it returns a record with status error, and
\* every record it returns has status success, no_data or error. For each
\* index type, process_all writes counts that add up to the number of cities
\* and one record per city, in the order of the cities.
C28_EveryCityIsRecorded ==
    /\ [](CityReturned =>
            /\ batch.result.status \in {"success", "no_data", "error"}
            /\ batch.result.city = batch.cities[batch.city]
            /\ batch.result.status = "error" <=> batch.result.error_message # "")
    /\ [](AtSave =>
            /\ output_data.success_count + output_data.no_data_count
                   + output_data.error_count = output_data.total_cities
            /\ Len(output_data.cities) = Len(batch.cities)
            /\ \A k \in 1..Len(batch.cities) :
                   output_data.cities[k].city = batch.cities[k])
    /\ [][/\ (batch # <<>> /\ batch.pc = "engine" /\ pc = "error") =>
                (CityReturned' /\ batch'.result.status = "error")
          /\ (batch # <<>> /\ batch.pc = "engine" /\ pc = "done") =>
                (CityReturned' /\ batch'.result.status = "success")]_vars

\* a file is about to be written that records a city on which the engine
\* failed after a city that succeeded
C28_Witness ==
    /\ AtSave
    /\ batch.success_count > 0
    /\ \E k \in 1..Len(batch.results) :
           /\ batch.results[k].status = "error"
           /\ batch.results[k].error_message = "ZeroDivisionError"

----------------------------------------------------------------------------

\* HousePriceDataCollector.fetch_page_content

MaxRetries == 3

\* what self.session.get and response.raise_for_status can do: answer, or
\* raise a requests.RequestException
Responses == {"ok", "Timeout", "ConnectionError", "HTTPError"}

InitFetch ==
    /\ EngineIdle
    /\ batch = <<>>
    /\ web = <<>>
    /\ \E max_retries \in 0..MaxRetries :
         fetch = [pc |-> "for", max_retries |-> max_retries, attempt |-> 0,
                  requests |-> 0, errors |-> <<>>, sleeps |-> <<>>,
                  outcome |-> "", raised |-> ""]

\* for attempt in range(max_retries): the head of the loop; a loop that ends
\* falls off the end of the function, which returns None
FetchFor ==
    /\ fetch # <<>>
    /\ fetch.pc = "for"
    /\ fetch' = IF fetch.attempt < fetch.max_retries
                THEN [fetch EXCEPT !.pc = "get"]
                ELSE [fetch EXCEPT !.pc = "end", !.outcome = "None"]
    /\ UNCHANGED <<engine_vars, batch, web>>

\* the try block: the request, raise_for_status, return response.text
FetchGet ==
    /\ fetch # <<>>
    /\ fetch.pc = "get"
    /\ \E response \in Responses :
         fetch' = IF response = "ok"
                  THEN [fetch EXCEPT !.pc = "end",
                                     !.requests = @ + 1,
                                     !.outcome = "text"]
                  ELSE [fetch EXCEPT !.pc = "except",
                                     !.requests = @ + 1,
                                     !.errors = Append(@, response)]
    /\ UNCHANGED <<engine_vars, batch, web>>

\* the except block: time.sleep(2 ** attempt) and the next turn, or raise
FetchExcept ==
    /\ fetch # <<>>
    /\ fetch.pc = "except"
    /\ fetch' = IF fetch.attempt < fetch.max_retries - 1
                THEN [fetch EXCEPT !.pc = "for",
                                   !.sleeps = Append(@, 2 ^ fetch.attempt),
                                   !.attempt = @ + 1]
                ELSE [fetch EXCEPT !.pc = "end",
                                   !.outcome = "raise",
                                   !.raised = fetch.errors[Len(fetch.errors)]]
    /\ UNCHANGED <<engine_vars, batch, web>>

NextFetch ==
    \/ FetchFor
    \/ FetchGet
    \/ FetchExcept

SpecFetch == InitFetch /\ [][NextFetch]_vars

\* C29: fetch_page_content makes at most max_retries requests; it returns
\* the page text on the first successful request and makes no request after
\* it; after failed attempt number attempt (0-based) it waits 2^attempt
\* seconds, and only when another attempt follows; after the max_retries-th
\* failure in a row it raises the last request error; and for every
\* max_retries >= 0 it ends by returning page text or by raising.
C29_FetchRetries ==
    fetch # <<>> =>
        /\ fetch.requests <= fetch.max_retries
        /\ fetch.requests = Len(fetch.errors)
                            + (IF fetch.outcome = "text" THEN 1 ELSE 0)
        /\ Len(fetch.sleeps) <= Len(fetch.errors)
        /\ Len(fetch.sleeps) < fetch.max_retries \/ fetch.max_retries = 0
        /\ \A k \in 1..Len(fetch.sleeps) : fetch.sleeps[k] = 2 ^ (k - 1)
        /\ fetch.pc = "end" =>
             /\ fetch.outcome \in {"text", "raise"}
             /\ fetch.outcome = "text" =>
                  Len(fetch.sleeps) = Len(fetch.errors)
             /\ fetch.outcome = "raise" =>
                  /\ Len(fetch.errors) = fetch.max_retries
                  /\ Len(fetch.sleeps) = fetch.max_retries - 1
                  /\ fetch.raised = fetch.errors[fetch.max_retries]

----------------------------------------------------------------------------
\* HousePriceHandler.handle_static_request

MaxPathLen == 3

\* self.web_path, as its components below the root
web_path == <<"srv", "web">>

\* the directories and the files of the machine
Dirs == {<<>>, <<"srv">>, <<"srv", "web">>, <<"srv", "web", "css">>}

Files ==
    {<<"srv", "web", "index.html">>, <<"srv", "web", "css", "site.css">>,
     <<"srv", "index.html">>, <<"srv", "secret.txt">>}

\* the components a request path is made of
Names == {"..", "css", "index.html", "site.css", "secret.txt", "srv"}

RECURSIVE PathsOfLen(_)
PathsOfLen(n) ==
    IF n = 0
    THEN {<<>>}
    ELSE {Append(p, c) : p \in PathsOfLen(n - 1), c \in Names}

\* the request paths: `slashes` leading slashes, then the components
RequestPaths ==
    {[slashes |-> s, parts |-> p] :
        s \in 0..2,
        p \in UNION {PathsOfLen(n) : n \in 0..MaxPathLen}}

\* the file the operating system reaches for a path given by components: it
\* follows '..' to the parent, and every component on the way must be a
\* directory; <<"ENOENT">> when there is none
RECURSIVE Walk(_, _)
Walk(at, rest) ==
    IF rest = <<>>
    THEN at
    ELSE IF at \notin Dirs
         THEN <<"ENOENT">>
         ELSE IF Head(rest) = ".."
              THEN Walk(IF at = <<>> THEN <<>> ELSE SubSeq(at, 1, Len(at) - 1),
                        Tail(rest))
              ELSE IF Append(at, Head(rest)) \in Dirs \cup Files
                   THEN Walk(Append(at, Head(rest)), Tail(rest))
                   ELSE <<"ENOENT">>

Resolve(file_path) == Walk(<<>>, file_path)

\* os.path.exists, os.path.isdir
Exists(file_path) == Resolve(file_path) \in Dirs \cup Files

IsDir(file_path) == Resolve(file_path) \in Dirs

\* os.path.join(self.web_path, path): a path that still starts with a slash
\* replaces the directory
Join(dir, path) ==
    IF path.slashes > 0 THEN path.parts ELSE dir \o path.parts

\* os.path.commonpath of two absolute paths: the longest common run of
\* leading components, '..' kept as a component like any other
RECURSIVE CommonPath(_, _)
CommonPath(a, b) ==
    IF a = <<>> \/ b = <<>> \/ Head(a) # Head(b)
    THEN <<>>
    ELSE <<Head(a)>> \o CommonPath(Tail(a), Tail(b))

\* is the file inside the web directory
Inside(location) ==
    /\ Len(location) >= Len(web_path)
    /\ SubSeq(location, 1, Len(web_path)) = web_path

InitStatic ==
    /\ EngineIdle
    /\ batch = <<>>
    /\ fetch = <<>>
    /\ \E path \in RequestPaths :
         web = [pc |-> "rewrite", request |-> path, path |-> path,
                file_path |-> <<>>, status |-> 0, content |-> <<"nothing">>]

\* the root path becomes /index.html and one leading slash is removed
StaticRewrite ==
    /\ web # <<>>
    /\ web.pc = "rewrite"
    /\ LET path == IF web.path.parts = <<>> /\ web.path.slashes <= 1
                   THEN [slashes |-> 1, parts |-> <<"index.html">>]
                   ELSE web.path
           stripped == IF path.slashes > 0
                       THEN [path EXCEPT !.slashes = @ - 1]
                       ELSE path
       IN  web' = [web EXCEPT !.pc = "check",
                              !.path = stripped,
                              !.file_path = Join(web_path, stripped)]
    /\ UNCHANGED <<engine_vars, batch, fetch>>

\* the security check
StaticCheck ==
    /\ web # <<>>
    /\ web.pc = "check"
    /\ web' = IF CommonPath(web.file_path, web_path) # web_path
              THEN [web EXCEPT !.pc = "end", !.status = 403]
              ELSE [web EXCEPT !.pc = "exists"]
    /\ UNCHANGED <<engine_vars, batch, fetch>>

\* if not os.path.exists(file_path)
StaticExists ==
    /\ web # <<>>
    /\ web.pc = "exists"
    /\ web' = IF ~Exists(web.file_path)
              THEN [web EXCEPT !.pc = "end", !.status = 404]
              ELSE [web EXCEPT !.pc = "isdir"]
    /\ UNCHANGED <<engine_vars, batch, fetch>>

\* if os.path.isdir(file_path): index.html of the directory
StaticDir ==
    /\ web # <<>>
    /\ web.pc = "isdir"
    /\ web' = IF IsDir(web.file_path)
              THEN IF Exists(Append(web.file_path, "index.html"))
                   THEN [web EXCEPT !.pc = "send",
                                    !.file_path = Append(@, "index.html")]
                   ELSE [web EXCEPT !.pc = "end", !.status = 404]
              ELSE [web EXCEPT !.pc = "send"]
    /\ UNCHANGED <<engine_vars, batch, fetch>>

\* the try block: the file is read and sent, or an exception is logged
StaticSend ==
    /\ web # <<>>
    /\ web.pc = "send"
    /\ \E opened \in BOOLEAN :
         web' = IF opened
                THEN [web EXCEPT !.pc = "end", !.status = 200,
                                 !.content = Resolve(web.file_path)]
                ELSE [web EXCEPT !.pc = "end"]
    /\ UNCHANGED <<engine_vars, batch, fetch>>

NextStatic ==
    \/ StaticRewrite
    \/ StaticCheck
    \/ StaticExists
    \/ StaticDir
    \/ StaticSend

SpecStatic == InitStatic /\ [][NextStatic]_vars

\* C30: handle_static_request only ever sends the content of a file located
\* inside the web directory: whatever the request path, paths with '..'
\* components included, a request whose path resolves outside the web
\* directory is not answered with 200 and gets no file content.
C30_StaticStaysInsideWebDirectory ==
    (web # <<>> /\ web.pc = "end") =>
        /\ web.content # <<"nothing">> => Inside(web.content)
        /\ web.status = 200 => Inside(Resolve(web.file_path))

====
